---- MODULE Spec2Model ----
(***************************************************************************)
(* Request-dispatch layer of the npc server: the weighted balancer and the *)
(* router of internal/llm, and the batch decision system with its decision *)
(* cache and the retrying provider calls of internal/api.                  *)
(*                                                                         *)
(* The module holds one specification per component:                       *)
(*   SpecBalancer  llm.Balancer (NewBalancer, Next, GetByName)             *)
(*   SpecRouter    llm.Router.Complete and CompleteWithProvider over the   *)
(*                 balancer and the rate limiter                           *)
(*   SpecBatch     api.BatchDecisionSystem.GetBatchDecisions: cache and    *)
(*                 answers over a small pool of providers                  *)
(*   SpecFallback  the retries and the fallback of GetBatchDecisions over  *)
(*                 any pool of providers, for one observation              *)
(*   SpecLimiter   a RateLimiter shared by goroutines calling Wait;        *)
(*                 SpecLimiterFair adds fair scheduling                    *)
(*   SpecCache     a DecisionCache called with Get and Set as time passes  *)
(*   SpecClassify  isRetryableError over the errors of a provider call     *)
(*   SpecParse     parseMultiNPCResponse over observations and responses   *)
(*   SpecConcurrent  goroutines in Router.Complete and readers of GetStats *)
(*   SpecReaders   goroutines in DecisionCache.Get on shared entries       *)
(*   SpecOverride  Router.SetNPCProvider and GetProviderForNPC             *)
(*   SpecResolvers goroutines in GetBatchDecisions on one batch system     *)
(*   SpecNexters   goroutines in Balancer.Next on one balancer             *)
(*   SpecFingerprint  hashObservation over pairs of observations           *)
(*   SpecCacheAnyKey  a DecisionCache called with any key, "" included     *)
(* Every specification constrains all variables; the variables of the      *)
(* other components stay at their initial value.                           *)
(***************************************************************************)
EXTENDS Integers, Sequences, FiniteSets, TLC

VARIABLES
    balancer,   \* llm.Balancer: providers, currentWeight, maxWeight, gcd, lastIndex
    picked,     \* name returned by the last Balancer.Next() ("nil" for nil, "none" before any call)
    counts,     \* number of times each provider name was returned by Next() since construction
    calls,      \* number of Next() calls since construction
    run,        \* length of the current run of Next() calls returning the same provider
    history,    \* the providers returned by Next() since construction, in call order
    now,        \* wall clock (time.Now()), in seconds
    router,     \* llm.Router: rateLimiter, npcMapping, successCount, errorCount, lastError
    up,         \* environment: the backends whose completion endpoint currently answers
    rcall,      \* the last Router.Complete call: its context, the backends invoked, its result
    manager,    \* api.Manager: slmProviders, activeSLM
    bds,        \* api.BatchDecisionSystem: cache, batchCalls, cachHits, fallbackUsed, totalDecisions
    bpc,        \* where the caller of GetBatchDecisions stands
    ctx,        \* the context of the GetBatchDecisions call: cancelled by the caller, timed out
    bcall,      \* the GetBatchDecisions call: observations, uncached indices, response
    worker,     \* the goroutine of callWithContext running callProviderWithRetry
    log,        \* the backend invocations and backoff sleeps of the call, in order
    limiter,    \* a RateLimiter on its own: tokens, maxTokens, refillRate, lastRefill, and who holds mu
    waiters,    \* the goroutines calling Wait on limiter: where each stands, its cost and times
    admitted,   \* the Wait calls on limiter that returned: return time and cost, in order
    cache,      \* a DecisionCache on its own: entries, maxSize, ttl
    op,         \* the last Get or Set on cache: its key and what it returned
    probe,      \* the last error handed to isRetryableError and the answer
    orphans,    \* the goroutines of callWithContext still running after its select took ctx.Done()
    lookup,     \* the last Balancer.GetByName call: the name asked for and the provider returned
    parse,      \* the last parseMultiNPCResponse call on its own: its arguments and its result
    rthreads,   \* the goroutines calling Router.Complete at once: where each stands, its provider
    stats,      \* the value a caller got from Router.GetStats and still holds
    sel,        \* the last SetNPCProvider or GetProviderForNPC call and what it returned
    readers,    \* the goroutines calling Get on cache at once: where each stands, what it loaded
    resolvers,  \* the goroutines calling GetBatchDecisions at once: where each stands, its call
    nexters,    \* the goroutines calling Balancer.Next() at once: where each stands
    fp          \* the last pair of observations handed to hashObservation and their keys

balVars == <<picked, counts, calls, run, history>>
routerVars == <<router, up, rcall>>
batchVars == <<manager, bds, bpc, ctx, bcall, worker, log, orphans>>
limVars == <<limiter, waiters, admitted>>
cacheVars == <<cache, op>>
callerVars == <<resolvers, nexters, fp>>
extVars == <<lookup, parse, rthreads, stats, sel, readers, callerVars>>
unitVars == <<limVars, cacheVars, probe, extVars>>

vars == <<balancer, picked, counts, calls, run, history, now, router, up, rcall,
          manager, bds, bpc, ctx, bcall, worker, log,
          limiter, waiters, admitted, cache, op, probe,
          orphans, lookup, parse, rthreads, stats, sel, readers, resolvers, nexters, fp>>

----------------------------------------------------------------------------
(* Bounds of the model *)

\* largest pool of providers built at construction
MaxProviders == 3
\* largest configured weight
MaxWeight == 4
\* number of Next() calls followed
MaxCalls == 60
\* number of Router.Complete calls followed
MaxRouterCalls == 3
\* largest number of observations in one GetBatchDecisions call
MaxObs == 2
\* number of GetBatchDecisions calls followed
MaxResolve == 2
\* largest pool of SLM providers where the observations and the answers vary
MaxBatchPool == 1
\* largest capacity of a rate limiter used on its own
MaxCapacity == 5
\* number of Wait calls followed on that limiter
MaxWaits == 3
\* second after which no goroutine is made to wait for the clock
LimiterHorizon == 2
\* largest maxSize of a decision cache used on its own
MaxCacheSize == 2
\* number of Get and Set calls followed on that cache
MaxCacheOps == 4
\* number of isRetryableError calls followed
MaxProbes == 3

\* SetNPCProvider and GetProviderForNPC calls made on a router
MaxOverrideOps == 4

\* Balancer.Next() calls made by the concurrent callers together
MaxConcCalls == 8

\* advances of the cyclic index counted in one Balancer.Next() call
MaxAdvances == 16

\* nearby gates of a fingerprinted observation
MaxGates == 2

\* GetBatchDecisions calls made by each of the concurrent callers
MaxConcResolves == 2

\* successful Get calls a goroutine makes on the shared cache
MaxReads == 2

\* largest pool of the router called by several goroutines at once
MaxConcProviders == 2
\* seconds between two observations of the wall clock
TickSeconds == 6
\* last second of the wall clock
MaxTime == 12

----------------------------------------------------------------------------
(* llm.Balancer *)

\* provider names, in configuration order
ProviderNames == <<"heavy", "medium", "light", "extra">>

\* weights as configured: 0 stands for "unset", negative values are accepted
RawWeights == (-1) .. MaxWeight

Max(a, b) == IF a > b THEN a ELSE b

RECURSIVE gcd(_, _)
gcd(a, b) == IF b # 0 THEN gcd(b, a % b) ELSE a

RECURSIVE FoldProviders(_, _, _)
\* the loop of NewBalancer over providers[1..]: running maximum and gcd
FoldProviders(ps, i, acc) ==
    IF i > Len(ps) THEN acc
    ELSE FoldProviders(ps, i + 1,
            [maxWeight |-> Max(acc.maxWeight, ps[i].weight),
             gcd       |-> gcd(acc.gcd, ps[i].weight)])

\* a NewBalancer that takes the sum of the weights for maxWeight
NewBalancerSummingWeights(names, weights) ==
    LET ps == [i \in 1 .. Len(names) |->
                 [name   |-> names[i],
                  weight |-> IF weights[names[i]] <= 0 THEN 1 ELSE weights[names[i]]]]
        mg == IF Len(ps) > 0
              THEN FoldProviders(ps, 2, [maxWeight |-> ps[1].weight, gcd |-> ps[1].weight])
              ELSE [maxWeight |-> 0, gcd |-> 0]
        RECURSIVE sum(_)
        sum(i) == IF i > Len(ps) THEN 0 ELSE ps[i].weight + sum(i + 1)
    IN  [providers     |-> ps,
         currentWeight |-> 0,
         maxWeight     |-> sum(1),
         gcd           |-> mg.gcd,
         lastIndex     |-> -1]

\* NewBalancer(providers, weights): names is the provider list, weights the map by name
NewBalancer(names, weights) ==
    LET ps == [i \in 1 .. Len(names) |->
                 [name   |-> names[i],
                  weight |-> IF weights[names[i]] <= 0 THEN 1 ELSE weights[names[i]]]]
        mg == IF Len(ps) > 0
              THEN FoldProviders(ps, 2, [maxWeight |-> ps[1].weight, gcd |-> ps[1].weight])
              ELSE [maxWeight |-> 0, gcd |-> 0]
    IN  [providers     |-> ps,
         currentWeight |-> 0,
         maxWeight     |-> mg.maxWeight,
         gcd           |-> mg.gcd,
         lastIndex     |-> -1]

RECURSIVE NextLoop(_)
\* the for-loop of Next: advance the cyclic index until an eligible entry is found.
\* lastIndex is 0-based as in the source; providers is 1-based here.
NextLoop(b) ==
    LET idx == (b.lastIndex + 1) % Len(b.providers)
        dec == b.currentWeight - b.gcd
        cw  == IF idx = 0
               THEN (IF dec <= 0 THEN b.maxWeight ELSE dec)
               ELSE b.currentWeight
        nb  == [b EXCEPT !.lastIndex = idx, !.currentWeight = cw]
    IN  IF b.providers[idx + 1].weight >= cw
        THEN [b |-> nb, provider |-> b.providers[idx + 1].name]
        ELSE NextLoop(nb)

RECURSIVE NextLoopAdvances(_, _)
\* the for-loop of Next: the advances of the cyclic index it makes after the first k,
\* counted up to MaxAdvances
NextLoopAdvances(b, k) ==
    LET idx == (b.lastIndex + 1) % Len(b.providers)
        dec == b.currentWeight - b.gcd
        cw  == IF idx = 0
               THEN (IF dec <= 0 THEN b.maxWeight ELSE dec)
               ELSE b.currentWeight
        nb  == [b EXCEPT !.lastIndex = idx, !.currentWeight = cw]
    IN  IF b.providers[idx + 1].weight >= cw THEN k + 1
        ELSE IF k + 1 >= MaxAdvances THEN MaxAdvances
        ELSE NextLoopAdvances(nb, k + 1)

\* a scan that restarts at index 0 on every call instead of resuming after lastIndex
NextRestartingScan(b) ==
    IF Len(b.providers) = 0 THEN [b |-> b, provider |-> "nil"]
    ELSE IF Len(b.providers) = 1 THEN [b |-> b, provider |-> b.providers[1].name]
    ELSE NextLoop([b EXCEPT !.lastIndex = -1])

\* plain round-robin that ignores the weights
NextUnweighted(b) ==
    IF Len(b.providers) = 0 THEN [b |-> b, provider |-> "nil"]
    ELSE IF Len(b.providers) = 1 THEN [b |-> b, provider |-> b.providers[1].name]
    ELSE LET idx == (b.lastIndex + 1) % Len(b.providers)
         IN  [b |-> [b EXCEPT !.lastIndex = idx], provider |-> b.providers[idx + 1].name]

\* a Next that gives nil unless there are several providers
NextNilUnlessSeveral(b) ==
    IF Len(b.providers) <= 1 THEN [b |-> b, provider |-> "nil"]
    ELSE NextLoop(b)

\* a Next that lets currentWeight fall below zero instead of starting over at
\* maxWeight; with currentWeight <= 0 the provider at the cursor is always eligible
NextNoReset(b) ==
    IF Len(b.providers) = 0 THEN [b |-> b, provider |-> "nil"]
    ELSE IF Len(b.providers) = 1 THEN [b |-> b, provider |-> b.providers[1].name]
    ELSE LET idx == (b.lastIndex + 1) % Len(b.providers)
             cw  == IF idx = 0 THEN b.currentWeight - b.gcd ELSE b.currentWeight
         IN  [b |-> [b EXCEPT !.lastIndex = idx, !.currentWeight = cw],
              provider |-> b.providers[idx + 1].name]

\* a Next that scans also when there is a single provider
NextAlwaysScanning(b) ==
    IF Len(b.providers) = 0 THEN [b |-> b, provider |-> "nil"]
    ELSE NextLoop(b)

\* Balancer.Next(): the balancer after the call and the provider returned
Next(b) ==
    IF Len(b.providers) = 0 THEN [b |-> b, provider |-> "nil"]
    ELSE IF Len(b.providers) = 1 THEN [b |-> b, provider |-> b.providers[1].name]
    ELSE NextLoop(b)

----------------------------------------------------------------------------
(* Errors. An error is its message, held as the sequence of its lower-case words. *)

ErrNoProviders == <<"no", "providers", "available">>
\* OpenAIAdapter.Complete: httpClient.Do fails at once on a cancelled context
ErrCanceled == <<"network", "error:", "context", "canceled">>
ErrHTTP429 == <<"http", "429">>
ErrHTTP500 == <<"http", "500">>
ErrParse == <<"json", "parse", "error">>

\* the failures a backend that does not answer produces
BackendErrors == {ErrHTTP429, ErrHTTP500, ErrParse}

----------------------------------------------------------------------------
(* llm.RateLimiter *)

Min(a, b) == IF a < b THEN a ELSE b

\* NewRateLimiter(maxTokens, refillRate) at time t
NewRateLimiter(maxTokens, refillRate, t) ==
    [tokens |-> maxTokens, maxTokens |-> maxTokens, refillRate |-> refillRate, lastRefill |-> t]

\* RateLimiter.Wait(tokens) entered at time t: the limiter afterwards and the time slept
Wait(r, tokens, t) ==
    LET elapsed  == t - r.lastRefill
        refilled == Min(r.maxTokens, r.tokens + elapsed * r.refillRate)
    IN  IF refilled < tokens
        THEN [r |-> [r EXCEPT !.tokens = 0, !.lastRefill = t],
              slept |-> (tokens - refilled) \div r.refillRate]
        ELSE [r |-> [r EXCEPT !.tokens = refilled - tokens, !.lastRefill = t],
              slept |-> 0]

----------------------------------------------------------------------------
(* A RateLimiter shared by goroutines. mu is held from the entry of Wait to its
   return, the sleep included. *)

Goroutines == {"g1", "g2"}

\* a refill that is not capped at maxTokens
refillUncapped(r, t) ==
    [r EXCEPT !.tokens = r.tokens + (t - r.lastRefill) * r.refillRate, !.lastRefill = t]

\* Wait, from time.Now() to r.lastRefill = now: the tokens earned since lastRefill
refill(r, t) ==
    [r EXCEPT !.tokens = Min(r.maxTokens, r.tokens + (t - r.lastRefill) * r.refillRate),
              !.lastRefill = t]

\* a sleep for the whole cost
waitTimeWholeCost(r, tokens) == tokens \div r.refillRate

\* waitTime of Wait, in seconds: (tokens - r.tokens) / r.refillRate
waitTime(r, tokens) == (tokens - r.tokens) \div r.refillRate

\* a mutex that stays locked
unlockNever(l, r) == [l EXCEPT !.r = r]

\* defer r.mu.Unlock(), the limiter left as r
unlock(l, r) == [r |-> r, mu |-> "free"]

NotWaiting == [pc |-> "idle", cost |-> 0, calledAt |-> 0, wake |-> 0, blocked |-> 0]

\* a limiter of the capacity given, full at time 0, nobody calling it
NewLimiter(maxTokens) ==
    /\ limiter = [r |-> NewRateLimiter(maxTokens, 1, 0), mu |-> "free"]
    /\ waiters = [g \in Goroutines |-> NotWaiting]
    /\ admitted = <<>>

\* the costs Wait is called with: one token, the whole bucket, more than the bucket
Costs == {1, limiter.r.maxTokens, limiter.r.maxTokens + 1}

\* the Wait calls made so far
WaitsMade ==
    Len(admitted) + Cardinality({g \in Goroutines : waiters[g].pc # "idle"})

\* goroutine g calls Wait(tokens) and queues for r.mu
WaitCall(g) ==
    /\ waiters[g].pc = "idle"
    /\ WaitsMade < MaxWaits
    /\ \E tokens \in Costs :
          waiters' = [waiters EXCEPT ![g] =
                         [pc |-> "lock", cost |-> tokens, calledAt |-> now, wake |-> 0,
                          blocked |-> 0]]
    /\ UNCHANGED <<limiter, admitted, now>>
    /\ UNCHANGED <<balancer, balVars, routerVars, batchVars, cacheVars, probe, extVars>>

\* g gets r.mu: refill, then either the debit and the return, or the start of the sleep
WaitLock(g) ==
    /\ waiters[g].pc = "lock"
    /\ limiter.mu = "free"
    /\ LET r1 == refill(limiter.r, now)
       IN  IF r1.tokens < waiters[g].cost
           THEN /\ limiter' = [r |-> r1, mu |-> g]
                /\ waiters' = [waiters EXCEPT ![g].pc = "sleep",
                                              ![g].wake = now + waitTime(r1, waiters[g].cost)]
                /\ admitted' = admitted
           ELSE /\ limiter' = unlock(limiter, [r1 EXCEPT !.tokens = @ - waiters[g].cost])
                /\ waiters' = [waiters EXCEPT ![g] = NotWaiting]
                /\ admitted' = Append(admitted, [g |-> g, at |-> now, cost |-> waiters[g].cost])
    /\ now' = now
    /\ UNCHANGED <<balancer, balVars, routerVars, batchVars, cacheVars, probe, extVars>>

\* the sleep of g is over: r.tokens = 0, the unlock and the return
WaitWake(g) ==
    /\ waiters[g].pc = "sleep"
    /\ waiters[g].wake = now
    /\ limiter' = unlock(limiter, [limiter.r EXCEPT !.tokens = 0])
    /\ waiters' = [waiters EXCEPT ![g] = NotWaiting]
    /\ admitted' = Append(admitted, [g |-> g, at |-> now, cost |-> waiters[g].cost])
    /\ now' = now
    /\ UNCHANGED <<balancer, balVars, routerVars, batchVars, cacheVars, probe, extVars>>

\* one second passes, no sleep being overslept; blocked counts the seconds a
\* goroutine spends queued for r.mu while its holder sleeps
Second ==
    /\ \A g \in Goroutines : waiters[g].pc = "sleep" => waiters[g].wake > now
    /\ \/ now < LimiterHorizon
       \/ \E g \in Goroutines : waiters[g].pc = "sleep"
    /\ now' = now + 1
    /\ waiters' = [g \in Goroutines |->
                      IF waiters[g].pc = "lock" /\ limiter.mu # "free"
                      THEN [waiters[g] EXCEPT !.blocked = @ + 1]
                      ELSE waiters[g]]
    /\ UNCHANGED <<limiter, admitted>>
    /\ UNCHANGED <<balancer, balVars, routerVars, batchVars, cacheVars, probe, extVars>>

----------------------------------------------------------------------------
(* llm.Router *)

PoolNames(b) == {b.providers[i].name : i \in 1 .. Len(b.providers)}

\* NewRouter at time t over the pool of balancer b: the limiter and the empty maps
\* (a Go map reads 0 or "" for a missing key)
NewRouter(b, t) ==
    [rateLimiter  |-> NewRateLimiter(5, 1, t),
     npcMapping   |-> [n \in {} |-> "nil"],
     successCount |-> [p \in PoolNames(b) |-> 0],
     errorCount   |-> [p \in PoolNames(b) |-> 0],
     lastError    |-> [p \in PoolNames(b) |-> <<>>]]

\* m[k]++ on a Go map: a missing key reads 0
Incremented(m, k) ==
    [x \in DOMAIN m \cup {k} |-> IF x = k THEN (IF k \in DOMAIN m THEN m[k] + 1 ELSE 1) ELSE m[x]]

\* m[k] = v on a Go map
Assigned(m, k, v) == [x \in DOMAIN m \cup {k} |-> IF x = k THEN v ELSE m[x]]

\* a success recorded by storing 1, as an increment that read the counter before any
\* other call wrote it
recordSuccessOverwriting(r, provider) == [r EXCEPT !.successCount = Assigned(@, provider, 1)]

recordSuccess(r, provider) == [r EXCEPT !.successCount = Incremented(@, provider)]

recordError(r, provider, err) ==
    [r EXCEPT !.errorCount = Incremented(@, provider), !.lastError = Assigned(@, provider, err)]

\* Provider.Complete(ctx, ...) of an adapter: a cancelled context fails the request,
\* otherwise the backend answers or fails with e
Complete(p, cancelled, e) ==
    IF cancelled THEN [ok |-> FALSE, err |-> ErrCanceled]
    ELSE IF p \in up THEN [ok |-> TRUE, err |-> <<>>]
    ELSE [ok |-> FALSE, err |-> e]

\* a lookup that searches only the providers after the rotation cursor
GetByNameAfterCursor(b, name) ==
    IF \E i \in (b.lastIndex + 2) .. Len(b.providers) : b.providers[i].name = name
    THEN name ELSE "nil"

\* Balancer.GetByName(name): the provider of that name, or nil
GetByName(b, name) == IF name \in PoolNames(b) THEN name ELSE "nil"

\* a call that goes on with a nil provider as if it were one that failed
callProviderUnchecked(r, via, n, p, cancelled, e) ==
    [router |-> recordError(r, p, e),
     rcall  |-> [n |-> n, via |-> via, cancelled |-> cancelled, invoked |-> <<p>>,
                 ok |-> FALSE, err |-> e]]

\* Router.Complete and CompleteWithProvider from "if provider == nil" on: call number n
\* of the router left as r by the limiter, through the method via, with provider p
callProvider(r, via, n, p, cancelled, e) ==
    LET res == Complete(p, cancelled, e)
    IN  IF p = "nil"
        THEN [router |-> r,
              rcall  |-> [n |-> n, via |-> via, cancelled |-> cancelled, invoked |-> <<>>,
                          ok |-> FALSE, err |-> ErrNoProviders]]
        ELSE [router |-> IF res.ok THEN recordSuccess(r, p) ELSE recordError(r, p, res.err),
              rcall  |-> [n |-> n, via |-> via, cancelled |-> cancelled, invoked |-> <<p>>,
                          ok |-> res.ok, err |-> res.err]]

\* Router.Complete(ctx, prompt, opts) by one caller, ctx cancelled or not
RouterComplete ==
    /\ rcall.n < MaxRouterCalls
    /\ \E cancelled \in BOOLEAN, e \in BackendErrors :
         LET w  == Wait(router.rateLimiter, 1, now)
             nx == Next(balancer)
             c  == callProvider([router EXCEPT !.rateLimiter = w.r], "Complete",
                                rcall.n + 1, nx.provider, cancelled, e)
         IN  /\ now' = now + w.slept
             /\ balancer' = nx.b
             /\ router' = c.router
             /\ rcall' = c.rcall
    /\ UNCHANGED <<up, balVars, batchVars, unitVars>>

\* the names callers ask CompleteWithProvider for: one that pools of two and more
\* register, one that no pool registers
RequestedNames == {"medium", "unlisted"}

\* Router.CompleteWithProvider(ctx, providerName, prompt, opts) by one caller
RouterCompleteWithProvider ==
    /\ rcall.n < MaxRouterCalls
    /\ \E cancelled \in BOOLEAN, e \in BackendErrors,
          providerName \in RequestedNames :
         LET w     == Wait(router.rateLimiter, 1, now)
             named == GetByName(balancer, providerName)
             nx    == IF named = "nil" THEN Next(balancer)
                      ELSE [b |-> balancer, provider |-> named]
             c     == callProvider([router EXCEPT !.rateLimiter = w.r], "CompleteWithProvider",
                                   rcall.n + 1, nx.provider, cancelled, e)
         IN  /\ now' = now + w.slept
             /\ balancer' = nx.b
             /\ router' = c.router
             /\ rcall' = c.rcall
    /\ UNCHANGED <<up, balVars, batchVars, unitVars>>

\* no Router.Complete call has been made
NoCall ==
    [n |-> 0, via |-> "none", cancelled |-> FALSE, invoked |-> <<>>, ok |-> TRUE, err |-> <<>>]

\* the router is built and not used
RouterIdle ==
    /\ now = 0
    /\ router = NewRouter(balancer, 0)
    /\ up = {}
    /\ rcall = NoCall

----------------------------------------------------------------------------
(* api: observations, decisions, fingerprints *)

NPCIDs == {"npc_0", "npc_1"}
NPCNames == {"Explorer", "Scout"}

\* the observations a client sends: identity, name, position, nearby gates
ObsPool ==
    {[npc_id |-> i, name |-> n, pos |-> <<20, 0>>, nearby_gates |-> <<>>] :
        i \in NPCIDs, n \in NPCNames}

\* the observation lists of a batch_decisions message: one observation per NPC
ObsLists ==
    {s \in UNION {[1 .. k -> ObsPool] : k \in 0 .. MaxObs} :
        \A i, j \in 1 .. Len(s) : i # j => s[i].npc_id # s[j].npc_id}

\* a default decision that names no NPC
DefaultDecisionAnonymous(obs) ==
    [npc_id |-> "", action |-> "explore", reason |-> "Looking around..."]

\* DefaultDecision(obs)
DefaultDecision(obs) ==
    [npc_id |-> obs.npc_id, action |-> "explore", reason |-> "Looking around..."]

\* an element of a decision slice that was made and never assigned
NilDecision == [nil |-> TRUE]

\* the entries of the "decisions" array of a backend's JSON answer; "" is a missing key
EntryPool ==
    {[npc_id |-> i, npc |-> n, action |-> "move"] :
        i \in NPCIDs \cup {""}, n \in NPCNames \cup {""}}

\* a backend's answer without parseable JSON
Garbage == [json |-> FALSE, decisions |-> <<>>]

\* the texts a backend answers with
Responses ==
    {Garbage} \cup
    {[json |-> TRUE, decisions |-> d] : d \in UNION {[1 .. k -> EntryPool] : k \in 0 .. MaxObs}}

\* int(v/50) * 50: the division truncates towards zero
Grid(v) == IF v >= 0 THEN (v \div 50) * 50 ELSE -(((-v) \div 50) * 50)

\* a Go string is the sequence of its bytes; the bytes that occur, with their codes
Code ==
    [c \in {",", "-", "0", "1", "2", "3", "4", "5", "6", "7", "8", "9", ":", "a", "b"} |->
       CASE c = "," -> 44 [] c = "-" -> 45 [] c = "0" -> 48 [] c = "1" -> 49
         [] c = "2" -> 50 [] c = "3" -> 51 [] c = "4" -> 52 [] c = "5" -> 53
         [] c = "6" -> 54 [] c = "7" -> 55 [] c = "8" -> 56 [] c = "9" -> 57
         [] c = ":" -> 58 [] c = "a" -> 97 [] c = "b" -> 98]

Digits == <<"0", "1", "2", "3", "4", "5", "6", "7", "8", "9">>

\* fmt.Sprintf("%d", n)
RECURSIVE FormatInt(_)
FormatInt(n) ==
    IF n < 0 THEN <<"-">> \o FormatInt(-n)
    ELSE IF n < 10 THEN <<Digits[n + 1]>>
    ELSE FormatInt(n \div 10) \o <<Digits[(n % 10) + 1]>>

\* s < t for Go strings: byte by byte, a proper prefix first
RECURSIVE StringLess(_, _)
StringLess(s, t) ==
    IF t = <<>> THEN FALSE
    ELSE IF s = <<>> THEN TRUE
    ELSE IF Code[Head(s)] # Code[Head(t)] THEN Code[Head(s)] < Code[Head(t)]
    ELSE StringLess(Tail(s), Tail(t))

\* k put into the sorted list ks
RECURSIVE Inserted(_, _)
Inserted(k, ks) ==
    IF ks = <<>> THEN <<k>>
    ELSE IF StringLess(Head(ks), k) THEN <<Head(ks)>> \o Inserted(k, Tail(ks))
    ELSE <<k>> \o ks

\* a list of keys left in the order given
Unsorted(ks) == ks

\* sort.Strings(ks)
RECURSIVE SortStrings(_)
SortStrings(ks) == IF ks = <<>> THEN <<>> ELSE Inserted(Head(ks), SortStrings(Tail(ks)))

\* strings.Join(ks, sep)
RECURSIVE Join(_, _)
Join(ks, sep) ==
    IF ks = <<>> THEN <<>>
    ELSE IF Len(ks) = 1 THEN ks[1]
    ELSE (ks[1] \o sep) \o Join(Tail(ks), sep)

\* the locked gates of an observation as "id:distance" keys, in the order given
RECURSIVE gateKeys(_, _)
gateKeys(gates, i) ==
    IF i > Len(gates) THEN <<>>
    ELSE IF gates[i].unlocked THEN gateKeys(gates, i + 1)
    ELSE <<(gates[i].id \o <<":">>) \o FormatInt(Grid(gates[i].distance))>>
            \o gateKeys(gates, i + 1)

\* hashObservation(obs): the key map that is marshalled and hashed (the JSON text and
\* the hash taken as injective)
hashObservation(obs) ==
    [x     |-> Grid(obs.pos[1]),
     y     |-> Grid(obs.pos[2]),
     name  |-> obs.name,
     gates |-> Join(SortStrings(gateKeys(obs.nearby_gates, 1)), <<",">>)]

----------------------------------------------------------------------------
(* api.DecisionCache *)

NewDecisionCache(maxSize, ttl) == [entries |-> <<>>, maxSize |-> maxSize, ttl |-> ttl]

\* a Get whose entries expire on reaching the TTL
GetExpiringAtTTL(c, key, t) ==
    IF key \notin DOMAIN c.entries
    THEN [c |-> c, ok |-> FALSE, Decision |-> NilDecision]
    ELSE IF t - c.entries[key].CreatedAt >= c.ttl
    THEN [c |-> c, ok |-> FALSE, Decision |-> NilDecision]
    ELSE [c |-> [c EXCEPT !.entries[key].HitCount = @ + 1],
          ok |-> TRUE, Decision |-> c.entries[key].Decision]

\* a Get whose entries expire at half the TTL
GetHalfTTL(c, key, t) ==
    IF key \notin DOMAIN c.entries
    THEN [c |-> c, ok |-> FALSE, Decision |-> NilDecision]
    ELSE IF 2 * (t - c.entries[key].CreatedAt) > c.ttl
    THEN [c |-> c, ok |-> FALSE, Decision |-> NilDecision]
    ELSE [c |-> [c EXCEPT !.entries[key].HitCount = @ + 1],
          ok |-> TRUE, Decision |-> c.entries[key].Decision]

\* a Get that deletes the entry it finds expired
GetSweeping(c, key, t) ==
    IF key \notin DOMAIN c.entries
    THEN [c |-> c, ok |-> FALSE, Decision |-> NilDecision]
    ELSE IF t - c.entries[key].CreatedAt > c.ttl
    THEN [c |-> [c EXCEPT !.entries = [k \in DOMAIN c.entries \ {key} |-> c.entries[k]]],
          ok |-> FALSE, Decision |-> NilDecision]
    ELSE [c |-> [c EXCEPT !.entries[key].HitCount = @ + 1],
          ok |-> TRUE, Decision |-> c.entries[key].Decision]

\* DecisionCache.Get(key) at time t: the cache afterwards, whether the key was found, its decision
Get(c, key, t) ==
    IF key \notin DOMAIN c.entries
    THEN [c |-> c, ok |-> FALSE, Decision |-> NilDecision]
    ELSE IF t - c.entries[key].CreatedAt > c.ttl
    THEN [c |-> c, ok |-> FALSE, Decision |-> NilDecision]
    ELSE [c |-> [c EXCEPT !.entries[key].HitCount = @ + 1],
          ok |-> TRUE, Decision |-> c.entries[key].Decision]

\* an eviction of the entry created last
evictNewest(c) ==
    IF DOMAIN c.entries = {} THEN {c}
    ELSE {[c EXCEPT !.entries = [k \in DOMAIN c.entries \ {old} |-> c.entries[k]]] :
            old \in {k \in DOMAIN c.entries :
                       \A k2 \in DOMAIN c.entries :
                          c.entries[k].CreatedAt >= c.entries[k2].CreatedAt}}

\* the orders in which a range over a map with the keys ks can visit them
RangeOrders(ks) ==
    {f \in [1 .. Cardinality(ks) -> ks] : \A i, j \in 1 .. Cardinality(ks) : i # j => f[i] # f[j]}

\* the loop of evictOldest over the keys in the order visited, from the i-th on:
\* the oldestKey it ends with, "" meaning none found yet
RECURSIVE oldestLoop(_, _, _, _, _)
oldestLoop(c, order, i, oldestKey, oldestTime) ==
    IF i > Len(order) THEN oldestKey
    ELSE IF oldestKey = "" \/ c.entries[order[i]].CreatedAt < oldestTime
    THEN oldestLoop(c, order, i + 1, order[i], c.entries[order[i]].CreatedAt)
    ELSE oldestLoop(c, order, i + 1, oldestKey, oldestTime)

\* evictOldest(): the caches it can leave, the map being ranged over in any order
evictOldest(c) ==
    {LET oldestKey == oldestLoop(c, order, 1, "", 0)
     IN  IF oldestKey # ""
         THEN [c EXCEPT !.entries = [k \in DOMAIN c.entries \ {oldestKey} |-> c.entries[k]]]
         ELSE c :
     order \in RangeOrders(DOMAIN c.entries)}

\* DecisionCache.Set(key, decision) at time t: the caches it can leave
Set(c, key, decision, t) ==
    LET entry == [Decision |-> decision, CreatedAt |-> t, HitCount |-> 0]
        put(c1) == [c1 EXCEPT !.entries =
                       [k \in DOMAIN c1.entries \cup {key} |->
                           IF k = key THEN entry ELSE c1.entries[k]]]
    IN  IF Cardinality(DOMAIN c.entries) >= c.maxSize
        THEN {put(c1) : c1 \in evictOldest(c)}
        ELSE {put(c)}

\* the keys and the decisions a cache used on its own is called with
CacheKeys == {"h1", "h2", "h3"}
CacheDecisions == {[npc_id |-> "npc_0", action |-> "move"], [npc_id |-> "npc_0", action |-> "wait"]}

\* no Get or Set has been made
NoOp ==
    [n |-> 0, kind |-> "none", key |-> "", ok |-> FALSE, Decision |-> NilDecision,
     removed |-> {}]

\* cache.Set(key, decision) by one caller
CacheSet ==
    /\ op.n < MaxCacheOps
    /\ \E key \in CacheKeys, decision \in CacheDecisions :
          /\ cache' \in Set(cache, key, decision, now)
          /\ op' = [n |-> op.n + 1, kind |-> "set", key |-> key, ok |-> TRUE,
                    Decision |-> decision,
                    removed |-> DOMAIN cache.entries \ DOMAIN cache'.entries]
    /\ UNCHANGED <<now, balancer, balVars, routerVars, batchVars, limVars, probe, extVars>>

\* cache.Get(key) by one caller
CacheGet ==
    /\ op.n < MaxCacheOps
    /\ \E key \in CacheKeys :
          LET g == Get(cache, key, now)
          IN  /\ cache' = g.c
              /\ op' = [n |-> op.n + 1, kind |-> "get", key |-> key, ok |-> g.ok,
                        Decision |-> g.Decision, removed |-> {}]
    /\ UNCHANGED <<now, balancer, balVars, routerVars, batchVars, limVars, probe, extVars>>

\* the keys of a cache called with any string, the empty one included
AnyKeys == {"", "h1", "h2"}

\* cache.Set(key, decision) by a caller that passes any string
CacheSetAnyKey ==
    /\ op.n < MaxCacheOps
    /\ \E key \in AnyKeys, decision \in CacheDecisions :
          /\ cache' \in Set(cache, key, decision, now)
          /\ op' = [n |-> op.n + 1, kind |-> "set", key |-> key, ok |-> TRUE,
                    Decision |-> decision,
                    removed |-> DOMAIN cache.entries \ DOMAIN cache'.entries]
    /\ UNCHANGED <<now, balancer, balVars, routerVars, batchVars, limVars, probe, extVars>>

\* cache.Get(key) by a caller that passes any string
CacheGetAnyKey ==
    /\ op.n < MaxCacheOps
    /\ \E key \in AnyKeys :
          LET g == Get(cache, key, now)
          IN  /\ cache' = g.c
              /\ op' = [n |-> op.n + 1, kind |-> "get", key |-> key, ok |-> g.ok,
                        Decision |-> g.Decision, removed |-> {}]
    /\ UNCHANGED <<now, balancer, balVars, routerVars, batchVars, limVars, probe, extVars>>

----------------------------------------------------------------------------
(* api.Manager and api.BatchDecisionSystem *)

SLMNames == <<"groq", "sambanova", "openrouter", "nebius">>

\* NewManager over the enabled SLM providers: the first one loaded is the active one
NewManager(names) ==
    [slmProviders |-> names,
     activeSLM    |-> IF Len(names) > 0 THEN names[1] ELSE "nil"]

\* NewBatchDecisionSystem(manager)
NewBatchDecisionSystem ==
    [cache          |-> NewDecisionCache(100, 10),
     batchCalls     |-> 0,
     cachHits       |-> 0,
     fallbackUsed   |-> 0,
     totalDecisions |-> 0]

ErrNoObservations == <<"no", "observations", "provided">>
ErrAllFailed == <<"all", "providers", "failed">>
ErrCtxCanceled == <<"context", "canceled">>
ErrCtxDeadline == <<"context", "deadline", "exceeded">>

\* strings.Contains(errStr, w), the message held word by word
Contains(err, w) == \E i \in 1 .. Len(err) : err[i] = w

\* isRetryableError(err)
isRetryableError(err) ==
    \/ Contains(err, "429")
    \/ Contains(err, "rate")
    \/ Contains(err, "timeout")
    \/ Contains(err, "temporary")
    \/ Contains(err, "503")
    \/ Contains(err, "502")

\* the errors callOpenAICompatible returns, lower-cased and split so that a marker
\* isRetryableError looks for is a word of its own: what failed, the HTTP status if
\* one was received, and the message
HTTPStatuses == {400, 401, 403, 404, 429, 500, 502, 503, 504}
HTTPBodies == {<<>>, <<"internal", "server", "error">>, <<"invalid", "api", "key">>,
               <<"rate", "limit", "exceeded">>}
ProviderErrors ==
    {[class |-> "network", status |-> 0,
      msg |-> <<"network", "error:", "dial", "tcp:", "connection", "refused">>],
     [class |-> "timeout", status |-> 0,
      msg |-> <<"network", "error:", "client.", "timeout", "exceeded">>],
     [class |-> "malformed", status |-> 200, msg |-> <<"json", "parse", "error:">>],
     [class |-> "malformed", status |-> 200, msg |-> <<"no", "response", "choices", "returned">>]}
    \cup
    {[class |-> "http", status |-> st, msg |-> <<"http", ToString(st)>> \o body] :
        st \in HTTPStatuses, body \in HTTPBodies}

\* isRetryableError has not been called
NoProbe == [n |-> 0, e |-> [class |-> "none", status |-> 0, msg |-> <<>>], retryable |-> FALSE]

\* isRetryableError(err) called on an error of a provider
Classify ==
    /\ probe.n < MaxProbes
    /\ \E e \in ProviderErrors :
          probe' = [n |-> probe.n + 1, e |-> e, retryable |-> isRetryableError(e.msg)]
    /\ UNCHANGED <<now, balancer, balVars, routerVars, batchVars, limVars, cacheVars, extVars>>

\* ctx.Err() of the call context
ctxErr(c) ==
    IF c.cancelled THEN ErrCtxCanceled
    ELSE IF c.timedOut THEN ErrCtxDeadline
    ELSE <<>>

\* the loop of parseMultiNPCResponse over the observations: decs is parsed.Decisions,
\* whose matched entries get their npc_id overwritten; refs[i] is the entry result[i]
\* points to, 0 for a default decision
RECURSIVE matchLoop(_, _, _, _)
matchLoop(observations, i, decs, refs) ==
    IF i > Len(observations) THEN [decs |-> decs, refs |-> refs]
    ELSE LET hits == {k \in 1 .. Len(decs) :
                         \/ decs[k].npc_id = observations[i].npc_id
                         \/ decs[k].npc = observations[i].name}
         IN  IF hits = {}
             THEN matchLoop(observations, i + 1, decs, Append(refs, 0))
             ELSE LET k == CHOOSE h \in hits : \A h2 \in hits : h <= h2
                  IN  matchLoop(observations, i + 1,
                                [decs EXCEPT ![k].npc_id = observations[i].npc_id],
                                Append(refs, k))

\* generateDefaultDecisions(observations)
generateDefaultDecisions(observations) ==
    [i \in 1 .. Len(observations) |-> DefaultDecision(observations[i])]

\* parseMultiNPCResponse(response, observations): result[i] as the caller reads it
\* once the loop is over (an entry matched twice is one map shared by both results)
parseMultiNPCResponse(response, observations) ==
    IF ~response.json THEN generateDefaultDecisions(observations)
    ELSE LET m == matchLoop(observations, 1, response.decisions, <<>>)
         IN  [i \in 1 .. Len(observations) |->
                IF m.refs[i] = 0 THEN DefaultDecision(observations[i])
                ELSE m.decs[m.refs[i]]]

\* phase 1 of GetBatchDecisions from observation i on, at time t
RECURSIVE cachePhase(_, _, _, _)
cachePhase(observations, i, t, acc) ==
    IF i > Len(observations) THEN acc
    ELSE LET g == Get(acc.cache, hashObservation(observations[i]), t)
         IN  IF g.ok
             THEN cachePhase(observations, i + 1, t,
                     [acc EXCEPT !.cache = g.c,
                                 !.Decisions[i] = g.Decision,
                                 !.FromCache[i] = TRUE,
                                 !.hits = @ + 1])
             ELSE cachePhase(observations, i + 1, t,
                     [acc EXCEPT !.uncachedIndices = Append(@, i)])

\* phase 4 of GetBatchDecisions from the i-th uncached observation on, at time t:
\* the (cache, Decisions) pairs it can leave
RECURSIVE distribute(_, _, _, _, _, _)
distribute(observations, uncachedIndices, decisions, i, t, acc) ==
    IF i > Len(uncachedIndices) THEN {acc}
    ELSE LET idx == uncachedIndices[i]
         IN  IF i <= Len(decisions)
             THEN UNION {distribute(observations, uncachedIndices, decisions, i + 1, t,
                            [cache |-> c2,
                             Decisions |-> [acc.Decisions EXCEPT ![idx] = decisions[i]]]) :
                         c2 \in Set(acc.cache, hashObservation(observations[idx]),
                                    decisions[i], t)}
             ELSE distribute(observations, uncachedIndices, decisions, i + 1, t,
                     [acc EXCEPT !.Decisions[idx] = DefaultDecision(observations[idx])])

\* a fallback branch that substitutes nothing
defaultsForNone(observations, uncachedIndices, Decisions) == Decisions

\* the fallback branch of GetBatchDecisions: default decisions for the uncached
defaultsFor(observations, uncachedIndices, Decisions) ==
    [i \in 1 .. Len(Decisions) |->
        IF \E j \in 1 .. Len(uncachedIndices) : uncachedIndices[j] = i
        THEN DefaultDecision(observations[i])
        ELSE Decisions[i]]

NoWorker ==
    [state |-> "none", p |-> "nil", i |-> 0, maxRetries |-> 0, ok |-> FALSE, err |-> <<>>]

\* go func() { bds.manager.callProviderWithRetry(p, prompt, 2) }
spawn(p) ==
    [state |-> "running", p |-> p, i |-> 0, maxRetries |-> 2, ok |-> FALSE, err |-> <<>>]

NoResponse == [Decisions |-> <<>>, FromCache |-> <<>>, Error |-> <<>>]

NoBatchCall ==
    [n |-> 0, observations |-> <<>>, uncachedIndices |-> <<>>, called |-> FALSE, cur |-> 0,
     response |-> NoResponse, err |-> <<>>]

LiveCtx == [cancelled |-> FALSE, timedOut |-> FALSE]

\* the batch system is built over the providers named and not used
BatchIdle(names) ==
    /\ manager = NewManager(names)
    /\ bds = NewBatchDecisionSystem
    /\ bpc = "idle"
    /\ ctx = LiveCtx
    /\ bcall = NoBatchCall
    /\ worker = NoWorker
    /\ log = <<>>
    /\ orphans = {}

ctxDone == ctx.cancelled \/ ctx.timedOut

\* the observations of the call that missed the cache, in order
uncachedObs(c) == [j \in 1 .. Len(c.uncachedIndices) |-> c.observations[c.uncachedIndices[j]]]

\* a fallback branch that also writes the default decisions to the cache
failCachingDefaults(err) ==
    \E d \in distribute(bcall.observations, bcall.uncachedIndices,
                        generateDefaultDecisions(uncachedObs(bcall)), 1, now,
                        [cache |-> bds.cache, Decisions |-> bcall.response.Decisions]) :
       /\ bds' = [bds EXCEPT !.fallbackUsed = @ + 1, !.cache = d.cache]
       /\ bcall' = [bcall EXCEPT !.called = TRUE, !.err = err,
                                 !.response.Decisions = d.Decisions]
       /\ bpc' = "done"
       /\ worker' = NoWorker
       /\ log' = <<>>

\* GetBatchDecisions after callLLMWithFallback failed with err: default decisions
fail(err) ==
    /\ bds' = [bds EXCEPT !.fallbackUsed = @ + 1]
    /\ bcall' = [bcall EXCEPT
                   !.called = TRUE,
                   !.err = err,
                   !.response.Decisions =
                       defaultsFor(bcall.observations, bcall.uncachedIndices, @)]
    /\ bpc' = "done"
    /\ worker' = NoWorker
    /\ log' = <<>>

\* GetBatchDecisions after callLLMWithFallback returned llmResponse: phase 4
succeed(llmResponse) ==
    LET decisions == parseMultiNPCResponse(llmResponse, uncachedObs(bcall))
    IN  \E d \in distribute(bcall.observations, bcall.uncachedIndices, decisions, 1, now,
                            [cache |-> bds.cache, Decisions |-> bcall.response.Decisions]) :
           /\ bds' = [bds EXCEPT !.batchCalls = @ + 1, !.cache = d.cache]
           /\ bcall' = [bcall EXCEPT !.response.Decisions = d.Decisions]
           /\ bpc' = "done"
           /\ worker' = NoWorker
           /\ log' = <<>>

\* the fallback loop of callLLMWithFallback from slmProviders[from] on: the next
\* provider that is not the primary is called, unless the context is done
fallbackLoop(from) ==
    LET rest == {k \in from .. Len(manager.slmProviders) :
                    manager.slmProviders[k] # manager.activeSLM}
    IN  IF rest = {} THEN fail(ErrAllFailed)
        ELSE IF ctxDone THEN fail(ctxErr(ctx))
        ELSE LET k == CHOOSE h \in rest : \A h2 \in rest : h <= h2
             IN  /\ worker' = spawn(manager.slmProviders[k])
                 /\ bcall' = [bcall EXCEPT !.called = TRUE, !.cur = k]
                 /\ bpc' = "select"
                 /\ UNCHANGED <<bds, log>>

\* GetBatchDecisions(ctx, observations) from its entry to the end of phase 1
GetBatchDecisions ==
    /\ bpc \in {"idle", "done"}
    /\ bcall.n < MaxResolve
    /\ \E observations \in ObsLists, cancelled \in BOOLEAN :
         LET n    == Len(observations)
             base == [NoBatchCall EXCEPT !.n = bcall.n + 1, !.observations = observations]
             ph   == cachePhase(observations, 1, now,
                        [cache |-> bds.cache,
                         Decisions |-> [i \in 1 .. n |-> NilDecision],
                         FromCache |-> [i \in 1 .. n |-> FALSE],
                         uncachedIndices |-> <<>>,
                         hits |-> 0])
         IN  /\ ctx' = [cancelled |-> cancelled, timedOut |-> FALSE]
             /\ IF n = 0
                THEN /\ bds' = bds
                     /\ bcall' = [base EXCEPT !.response.Error = ErrNoObservations]
                     /\ bpc' = "done"
                ELSE IF cancelled
                THEN /\ bds' = [bds EXCEPT !.totalDecisions = @ + n]
                     /\ bcall' = [base EXCEPT !.response.Error = ErrCtxCanceled]
                     /\ bpc' = "done"
                ELSE /\ bds' = [bds EXCEPT !.totalDecisions = @ + n,
                                           !.cachHits = @ + ph.hits,
                                           !.cache = ph.cache]
                     /\ bcall' = [base EXCEPT
                                    !.uncachedIndices = ph.uncachedIndices,
                                    !.response = [Decisions |-> ph.Decisions,
                                                  FromCache |-> ph.FromCache,
                                                  Error |-> <<>>]]
                     /\ bpc' = IF ph.uncachedIndices = <<>> THEN "done" ELSE "lookedUp"
    /\ worker' = NoWorker
    /\ log' = <<>>
    /\ UNCHANGED <<manager, orphans, now, balancer, balVars, routerVars, unitVars>>

\* GetBatchDecisions from the second context check to the first provider call
callLLMWithFallback ==
    /\ bpc = "lookedUp"
    /\ IF ctx.cancelled
       THEN /\ bcall' = [bcall EXCEPT !.response = [NoResponse EXCEPT !.Error = ErrCtxCanceled]]
            /\ bpc' = "done"
            /\ UNCHANGED <<bds, worker, log>>
       ELSE IF manager.activeSLM # "nil"
       THEN /\ worker' = spawn(manager.activeSLM)
            /\ bcall' = [bcall EXCEPT !.called = TRUE, !.cur = 0]
            /\ bpc' = "select"
            /\ UNCHANGED <<bds, log>>
       ELSE fallbackLoop(1)
    /\ UNCHANGED <<manager, ctx, orphans, now, balancer, balVars, routerVars, unitVars>>

\* the failures callProvider returns
ManagerErrors == {ErrHTTP429, ErrHTTP500}

\* a backoff of 1 << i seconds
backoffDoubled(i) == 2 ^ i

\* the seconds slept before the call of loop index i > 0: 1 << (i-1)
backoff(i) == 2 ^ (i - 1)

\* a loop that goes on after any error
retryLoopAnyError(w, ok, e) ==
    IF ok
    THEN [w EXCEPT !.state = "done", !.ok = TRUE, !.err = <<>>]
    ELSE IF w.i + 1 > w.maxRetries
    THEN [w EXCEPT !.state = "done", !.err = e]
    ELSE [w EXCEPT !.i = @ + 1, !.err = e]

\* what the loop of callProviderWithRetry does with the outcome of callProvider
retryLoop(w, ok, e) ==
    IF ok
    THEN [w EXCEPT !.state = "done", !.ok = TRUE, !.err = <<>>]
    ELSE IF ~isRetryableError(e)
    THEN [w EXCEPT !.state = "done", !.err = e]
    ELSE IF w.i + 1 > w.maxRetries
    THEN [w EXCEPT !.state = "done", !.err = e]
    ELSE [w EXCEPT !.i = @ + 1, !.err = e]

\* one iteration of the loop of callProviderWithRetry in the goroutine: the backoff
\* sleep, the call of the provider, and what the loop does with its outcome
callProviderWithRetry ==
    /\ worker.state = "running"
    /\ \E ok \in BOOLEAN, e \in ManagerErrors :
         /\ ok => e = ErrHTTP429
         /\ LET slept   == IF worker.i > 0
                           THEN <<[kind |-> "sleep", p |-> worker.p,
                                   secs |-> backoff(worker.i), ok |-> TRUE, err |-> <<>>]>>
                           ELSE <<>>
                invoked == [kind |-> "invoke", p |-> worker.p, secs |-> 0,
                            ok |-> ok, err |-> IF ok THEN <<>> ELSE e]
            IN  /\ log' = (log \o slept) \o <<invoked>>
                /\ worker' = retryLoop(worker, ok, e)
    /\ UNCHANGED <<manager, bds, bpc, ctx, bcall, orphans, now, balancer, balVars, routerVars, unitVars>>

\* the select of callWithContext receives the goroutine's result; the text a
\* provider answered with is drawn where it is read
selectResult ==
    /\ bpc = "select"
    /\ worker.state = "done"
    /\ IF worker.ok
       THEN \E response \in Responses : succeed(response)
       ELSE fallbackLoop(bcall.cur + 1)
    /\ UNCHANGED <<manager, ctx, orphans, now, balancer, balVars, routerVars, unitVars>>

\* the goroutine of callWithContext once nobody receives from resultChan: it goes
\* on in callProviderWithRetry, its last error of no further use
abandoned(w) == [w EXCEPT !.err = <<>>]

\* the select of callWithContext receives ctx.Done(): the provider counts as failed,
\* and the goroutine started for it, if it has not finished, is left running
selectCtxDone ==
    /\ bpc = "select"
    /\ ctxDone
    /\ fallbackLoop(bcall.cur + 1)
    /\ orphans' = IF worker.state = "running" THEN orphans \cup {abandoned(worker)}
                  ELSE orphans
    /\ UNCHANGED <<manager, ctx, now, balancer, balVars, routerVars, unitVars>>

\* one iteration of the loop of callProviderWithRetry in a goroutine left running:
\* the backoff sleep, the call of the provider, and the return or the next iteration
orphanRetry ==
    /\ \E w \in orphans, ok \in BOOLEAN, e \in ManagerErrors :
         /\ ok => e = ErrHTTP429
         /\ LET w2 == retryLoop(w, ok, e)
            IN  orphans' = (orphans \ {w})
                             \cup (IF w2.state = "running" THEN {abandoned(w2)} ELSE {})
    /\ UNCHANGED <<manager, bds, bpc, ctx, bcall, worker, log, now, balancer, balVars,
                   routerVars, unitVars>>

\* the caller cancels the context of the call in progress
CtxCancel ==
    /\ bpc \in {"lookedUp", "select"}
    /\ ~ctx.cancelled
    /\ ctx' = [ctx EXCEPT !.cancelled = TRUE]
    /\ UNCHANGED <<manager, bds, bpc, bcall, worker, log, orphans, now, balancer, balVars, routerVars, unitVars>>

\* the 25 s of context.WithTimeout run out while the providers are called
CtxTimeout ==
    /\ bpc = "select"
    /\ ~ctxDone
    /\ ctx' = [ctx EXCEPT !.timedOut = TRUE]
    /\ UNCHANGED <<manager, bds, bpc, bcall, worker, log, orphans, now, balancer, balVars, routerVars, unitVars>>

\* the wall clock advances
Tick ==
    /\ now + TickSeconds <= MaxTime
    /\ now' = now + TickSeconds
    /\ UNCHANGED <<balancer, balVars, routerVars, batchVars, unitVars>>

\* Balancer.GetByName(name) by the caller of the balancer
BalancerGetByName ==
    /\ \E name \in RequestedNames :
          lookup' = [name |-> name, provider |-> GetByName(balancer, name)]
    /\ UNCHANGED <<balancer, balVars, now, routerVars, batchVars, limVars, cacheVars, probe,
                   parse, rthreads, stats, sel, readers, callerVars>>

\* Next() as SpecBalancer observes it: the selection counters are test bookkeeping
\* (counts[p.Name()]++ of TestBalancer_WeightedRoundRobin)
BalancerNext ==
    /\ calls < MaxCalls
    /\ LET r == Next(balancer)
       IN  /\ balancer' = r.b
           /\ picked' = r.provider
           /\ counts' = IF r.provider = "nil" THEN counts
                        ELSE [counts EXCEPT ![r.provider] = @ + 1]
           /\ run' = IF r.provider = picked THEN run + 1 ELSE 1
           /\ history' = Append(history, r.provider)
    /\ calls' = calls + 1
    /\ UNCHANGED <<now, routerVars, batchVars, unitVars>>

\* no GetByName call has been made
NoLookup == [name |-> "", provider |-> "none"]

\* no parseMultiNPCResponse call has been made on its own
NoParse == [made |-> FALSE, observations |-> <<>>, response |-> Garbage, result |-> <<>>]

\* parseMultiNPCResponse(response, observations) on any answer and any observations
Parse ==
    /\ \E observations \in ObsLists, response \in Responses :
          parse' = [made |-> TRUE, observations |-> observations, response |-> response,
                    result |-> parseMultiNPCResponse(response, observations)]
    /\ UNCHANGED <<balancer, balVars, now, routerVars, batchVars, limVars, cacheVars, probe,
                   lookup, rthreads, stats, sel, readers, callerVars>>

\* a goroutine outside Router.Complete
NotCalling == [pc |-> "idle", provider |-> "nil", cancelled |-> FALSE, ok |-> TRUE, err |-> <<>>]

\* nobody holds a value returned by GetStats
NoStats == [taken |-> FALSE, value |-> <<>>, seen |-> <<>>]

\* a goroutine enters Router.Complete: rateLimiter.Wait(1), balancer.Next(), and
\* either the return of "no providers available" or the start of provider.Complete
RCStart(g) ==
    /\ rthreads[g].pc = "idle"
    /\ rcall.n < MaxRouterCalls
    /\ \E cancelled \in BOOLEAN :
         LET w  == Wait(router.rateLimiter, 1, now)
             nx == Next(balancer)
         IN  /\ now' = now + w.slept
             /\ balancer' = nx.b
             /\ router' = [router EXCEPT !.rateLimiter = w.r]
             /\ rthreads' = [rthreads EXCEPT ![g] =
                    IF nx.provider = "nil"
                    THEN [NotCalling EXCEPT !.ok = FALSE, !.err = ErrNoProviders]
                    ELSE [NotCalling EXCEPT !.pc = "calling", !.provider = nx.provider,
                                            !.cancelled = cancelled]]
    /\ rcall' = [rcall EXCEPT !.n = @ + 1]
    /\ UNCHANGED <<up, stats, balVars, batchVars, limVars, cacheVars, probe,
                   lookup, parse, sel, readers, callerVars>>

\* provider.Complete returns to the goroutine, which records the outcome under r.mu
\* and returns it
RCFinish(g) ==
    /\ rthreads[g].pc = "calling"
    /\ \E e \in BackendErrors :
         LET c == callProvider(router, "Complete", rcall.n, rthreads[g].provider,
                               rthreads[g].cancelled, e)
         IN  /\ router' = c.router
             /\ rthreads' = [rthreads EXCEPT ![g].pc = "idle", ![g].ok = c.rcall.ok,
                                             ![g].err = c.rcall.err]
    /\ UNCHANGED <<balancer, now, up, rcall, stats, balVars, batchVars, limVars, cacheVars,
                   probe, lookup, parse, sel, readers, callerVars>>

\* the maps of the router a map value can refer to
MapRefs == {"r.successCount", "r.errorCount", "r.lastError"}

\* the contents of the map a map value refers to
Deref(r, ref) ==
    IF ref = "r.successCount" THEN r.successCount
    ELSE IF ref = "r.errorCount" THEN r.errorCount
    ELSE r.lastError

\* Router.GetStats(): a new map whose three values are the router's own maps
GetStats(r) ==
    [success |-> "r.successCount", errors |-> "r.errorCount", lastError |-> "r.lastError"]

\* what a holder of the value v returned by GetStats reads in it
ReadStats(r, v) == [k \in DOMAIN v |-> Deref(r, v[k])]

\* a caller takes GetStats() and keeps the value; seen is what the value held when
\* it was returned
RCGetStats ==
    /\ ~stats.taken
    /\ stats' = [taken |-> TRUE, value |-> GetStats(router),
                 seen |-> ReadStats(router, GetStats(router))]
    /\ UNCHANGED <<balancer, now, router, up, rcall, rthreads, balVars, batchVars, limVars,
                   cacheVars, probe, lookup, parse, sel, readers, callerVars>>

\* no SetNPCProvider or GetProviderForNPC call has been made
NoSel == [n |-> 0, kind |-> "none", npcName |-> "", providerName |-> "", provider |-> "none"]

\* Router.SetNPCProvider(npcName, providerName) over the balancer b: the router afterwards
SetNPCProvider(r, b, npcName, providerName) ==
    LET provider == GetByName(b, providerName)
    IN  IF provider = "nil" THEN r
        ELSE [r EXCEPT !.npcMapping = Assigned(@, npcName, provider)]

\* a selection that returns the override and moves the rotation on all the same
GetProviderForNPCAdvancing(r, b, npcName) ==
    IF npcName \in DOMAIN r.npcMapping
    THEN [b |-> Next(b).b, provider |-> r.npcMapping[npcName]]
    ELSE Next(b)

\* Router.GetProviderForNPC(npcName) over the balancer b: the balancer afterwards and
\* the provider returned
GetProviderForNPC(r, b, npcName) ==
    IF npcName \in DOMAIN r.npcMapping
    THEN [b |-> b, provider |-> r.npcMapping[npcName]]
    ELSE Next(b)

\* the provider names SetNPCProvider is called with
OverrideNames == RequestedNames \cup {"heavy"}

\* r.SetNPCProvider(npcName, providerName) by a caller
RouterSetNPCProvider ==
    /\ sel.n < MaxOverrideOps
    /\ \E npcName \in NPCNames, providerName \in OverrideNames :
          /\ router' = SetNPCProvider(router, balancer, npcName, providerName)
          /\ sel' = [n |-> sel.n + 1, kind |-> "set", npcName |-> npcName,
                     providerName |-> providerName,
                     provider |-> GetByName(balancer, providerName)]
    /\ UNCHANGED <<balancer, now, up, rcall, balVars, batchVars, limVars, cacheVars, probe,
                   lookup, parse, rthreads, stats, readers, callerVars>>

\* r.GetProviderForNPC(npcName) by a caller
RouterGetProviderForNPC ==
    /\ sel.n < MaxOverrideOps
    /\ \E npcName \in NPCNames :
          LET g == GetProviderForNPC(router, balancer, npcName)
          IN  /\ balancer' = g.b
              /\ sel' = [n |-> sel.n + 1, kind |-> "get", npcName |-> npcName,
                         providerName |-> "", provider |-> g.provider]
    /\ UNCHANGED <<router, now, up, rcall, balVars, batchVars, limVars, cacheVars, probe,
                   lookup, parse, rthreads, stats, readers, callerVars>>

\* a goroutine outside DecisionCache.Get
NotReading == [pc |-> "idle", key |-> "", seen |-> 0, done |-> 0]

\* no goroutine is inside Get, holding c.mu.RLock()
NoReader == \A g \in Goroutines : readers[g].pc = "idle"

\* goroutine g in Get(key), under c.mu.RLock(): a missing or expired entry is
\* reported absent; of a live entry the hit counter is loaded for entry.HitCount++
GetLoad(g) ==
    /\ readers[g].pc = "idle"
    /\ readers[g].done < MaxReads
    /\ \E key \in CacheKeys :
          IF Get(cache, key, now).ok
          THEN readers' = [readers EXCEPT ![g].pc = "loaded", ![g].key = key,
                                         ![g].seen = cache.entries[key].HitCount]
          ELSE readers' = [readers EXCEPT ![g].key = key]
    /\ UNCHANGED <<cache, op, now, balancer, balVars, routerVars, batchVars, limVars, probe,
                   lookup, parse, rthreads, stats, sel, callerVars>>

\* g stores the incremented hit counter, releases the read lock and returns the entry
GetStore(g) ==
    /\ readers[g].pc = "loaded"
    /\ cache' = [cache EXCEPT !.entries[readers[g].key].HitCount = readers[g].seen + 1]
    /\ readers' = [readers EXCEPT ![g].pc = "idle", ![g].done = @ + 1]
    /\ UNCHANGED <<op, now, balancer, balVars, routerVars, batchVars, limVars, probe,
                   lookup, parse, rthreads, stats, sel, callerVars>>

\* no goroutine is in GetBatchDecisions
NotResolving ==
    [pc |-> "idle", started |-> 0, observations |-> <<>>, i |-> 0, uncachedIndices |-> <<>>,
     decisions |-> <<>>, called |-> 0]

\* the observation lists concurrent callers send: each NPC under its own name
ConcObsLists == {s \in ObsLists : \A i \in 1 .. Len(s) : (s[i].npc_id = "npc_0") <=> (s[i].name = "Explorer")}

\* the texts a backend answers concurrent callers with
ConcResponses ==
    {Garbage, [json |-> TRUE, decisions |-> <<[npc_id |-> "npc_0", npc |-> "", action |-> "move"]>>]}

\* a count of calls, not of observations
countCalls(b, n) == [b EXCEPT !.totalDecisions = @ + 1]

\* bds.totalDecisions += len(observations), under bds.mu.Lock()
countObservations(b, n) == [b EXCEPT !.totalDecisions = @ + n]

\* bds.cachHits++, under bds.mu.Lock()
countCacheHit(b) == [b EXCEPT !.cachHits = @ + 1]

\* bds.fallbackUsed++, under bds.mu.Lock()
countFallback(b) == [b EXCEPT !.fallbackUsed = @ + 1]

\* bds.batchCalls++, under bds.mu.Lock()
countBatchCall(b) == [b EXCEPT !.batchCalls = @ + 1]

\* the goroutine r returns from GetBatchDecisions
returned(r) == [NotResolving EXCEPT !.started = r.started, !.called = r.called]

\* the cache loop of phase 1 moves on from observation r.i to the next one, or to
\* what follows the loop
nextObservation(r) ==
    IF r.i < Len(r.observations) THEN [r EXCEPT !.pc = "phase1", !.i = @ + 1]
    ELSE IF r.uncachedIndices = <<>> THEN returned(r)
    ELSE [r EXCEPT !.pc = "callLLM"]

\* g enters GetBatchDecisions(ctx, observations): the empty-input check, the count
\* of the observations and the first context check
GBDEnter(g) ==
    /\ resolvers[g].pc = "idle"
    /\ resolvers[g].started < MaxConcResolves
    /\ \E observations \in ConcObsLists, cancelled \in BOOLEAN :
          LET r == [NotResolving EXCEPT !.started = resolvers[g].started + 1]
          IN  IF Len(observations) = 0
              THEN /\ bds' = bds
                   /\ resolvers' = [resolvers EXCEPT ![g] = r]
              ELSE /\ bds' = countObservations(bds, Len(observations))
                   /\ resolvers' = [resolvers EXCEPT ![g] =
                         IF cancelled THEN r
                         ELSE [r EXCEPT !.pc = "phase1", !.observations = observations,
                                        !.i = 1]]
    /\ UNCHANGED <<manager, bpc, ctx, bcall, worker, log, orphans, now, balancer, balVars,
                   routerVars, limVars, cacheVars, probe, lookup, parse, rthreads, stats, sel,
                   readers, nexters, fp>>

\* g looks observation i up in the cache
GBDLookup(g) ==
    /\ resolvers[g].pc = "phase1"
    /\ LET r  == resolvers[g]
           c  == Get(bds.cache, hashObservation(r.observations[r.i]), now)
       IN  IF c.ok
           THEN /\ bds' = [bds EXCEPT !.cache = c.c]
                /\ resolvers' = [resolvers EXCEPT ![g].pc = "hit"]
           ELSE /\ bds' = bds
                /\ resolvers' = [resolvers EXCEPT ![g] =
                      nextObservation([r EXCEPT !.uncachedIndices = Append(@, r.i)])]
    /\ UNCHANGED <<manager, bpc, ctx, bcall, worker, log, orphans, now, balancer, balVars,
                   routerVars, limVars, cacheVars, probe, lookup, parse, rthreads, stats, sel,
                   readers, nexters, fp>>

\* g counts the cache hit of observation i
GBDCountHit(g) ==
    /\ resolvers[g].pc = "hit"
    /\ bds' = countCacheHit(bds)
    /\ resolvers' = [resolvers EXCEPT ![g] = nextObservation(resolvers[g])]
    /\ UNCHANGED <<manager, bpc, ctx, bcall, worker, log, orphans, now, balancer, balVars,
                   routerVars, limVars, cacheVars, probe, lookup, parse, rthreads, stats, sel,
                   readers, nexters, fp>>

\* g checks its context again, calls callLLMWithFallback and counts its outcome
GBDCall(g) ==
    /\ resolvers[g].pc = "callLLM"
    /\ \E cancelled \in BOOLEAN, ok \in BOOLEAN, llmResponse \in ConcResponses :
          LET r == resolvers[g]
              u == [j \in 1 .. Len(r.uncachedIndices) |-> r.observations[r.uncachedIndices[j]]]
          IN  IF cancelled
              THEN /\ ok /\ llmResponse = Garbage
                   /\ bds' = bds
                   /\ resolvers' = [resolvers EXCEPT ![g] = returned(r)]
              ELSE IF ~ok
              THEN /\ llmResponse = Garbage
                   /\ bds' = countFallback(bds)
                   /\ resolvers' = [resolvers EXCEPT ![g] =
                                       returned([r EXCEPT !.called = @ + 1])]
              ELSE /\ bds' = countBatchCall(bds)
                   /\ resolvers' = [resolvers EXCEPT ![g] =
                         [r EXCEPT !.pc = "phase4", !.called = @ + 1, !.i = 1,
                                   !.decisions = parseMultiNPCResponse(llmResponse, u)]]
    /\ UNCHANGED <<manager, bpc, ctx, bcall, worker, log, orphans, now, balancer, balVars,
                   routerVars, limVars, cacheVars, probe, lookup, parse, rthreads, stats, sel,
                   readers, nexters, fp>>

\* g writes the decision of its i-th uncached observation to the cache
GBDStore(g) ==
    /\ resolvers[g].pc = "phase4"
    /\ LET r   == resolvers[g]
           idx == r.uncachedIndices[r.i]
       IN  /\ \E c2 \in Set(bds.cache, hashObservation(r.observations[idx]),
                             r.decisions[r.i], now) :
                 bds' = [bds EXCEPT !.cache = c2]
           /\ resolvers' = [resolvers EXCEPT ![g] =
                 IF r.i < Len(r.uncachedIndices) THEN [r EXCEPT !.i = @ + 1]
                 ELSE returned(r)]
    /\ UNCHANGED <<manager, bpc, ctx, bcall, worker, log, orphans, now, balancer, balVars,
                   routerVars, limVars, cacheVars, probe, lookup, parse, rthreads, stats, sel,
                   readers, nexters, fp>>

\* the nearby gates of the observations fingerprinted: id, distance, unlocked; one
\* id holds the separators of the key
GatePool ==
    {[id |-> <<"a">>, distance |-> 10, unlocked |-> FALSE],
     [id |-> <<"a">>, distance |-> 10, unlocked |-> TRUE],
     [id |-> <<"a">>, distance |-> 60, unlocked |-> FALSE],
     [id |-> <<"b">>, distance |-> 10, unlocked |-> FALSE],
     [id |-> <<"a", ":", "0", ",", "b">>, distance |-> 10, unlocked |-> FALSE]}

\* the observations fingerprinted: names, positions either side of the origin and in
\* the next cell, up to MaxGates nearby gates, an energy
FingerprintObs ==
    {[npc_id |-> "npc_0", name |-> n, pos |-> <<x, 0>>, nearby_gates |-> gs, energy |-> e] :
        n \in NPCNames, x \in {-20, 20, 60}, e \in {1, 2},
        gs \in UNION {[1 .. k -> GatePool] : k \in 0 .. MaxGates}}

\* hashObservation called on two observations, once
Fingerprint ==
    /\ ~fp.made
    /\ \E a \in FingerprintObs, b \in FingerprintObs :
          fp' = [made |-> TRUE, a |-> a, b |-> b,
                 ha |-> hashObservation(a), hb |-> hashObservation(b)]
    /\ UNCHANGED <<now, balancer, balVars, routerVars, batchVars, limVars, cacheVars, probe,
                   lookup, parse, rthreads, stats, sel, readers, resolvers, nexters>>

\* no goroutine is in Balancer.Next()
NotInNext == [pc |-> "idle", got |-> "none", seen |-> <<>>, n |-> 0]

\* a mutex that is never held
muFreeAlways(ns) == TRUE

\* b.mu is held by none of the goroutines ns
muFree(ns) == \A g \in DOMAIN ns : ns[g].pc # "locked"

\* g calls Next(): with no provider or a single one it returns at once, without
\* the lock
NextEnter(g) ==
    /\ nexters[g].pc = "idle"
    /\ calls < MaxConcCalls
    /\ calls' = calls + 1
    /\ IF Len(balancer.providers) <= 1
       THEN /\ nexters' = [nexters EXCEPT ![g].got = Next(balancer).provider, ![g].n = @ + 1]
            /\ history' = Append(history, Next(balancer).provider)
       ELSE /\ nexters' = [nexters EXCEPT ![g].pc = "entered"]
            /\ history' = history
    /\ UNCHANGED <<balancer, picked, counts, run, now, routerVars, batchVars, limVars,
                   cacheVars, probe, lookup, parse, rthreads, stats, sel, readers,
                   resolvers, fp>>

\* g takes b.mu and reads the rotation state
NextLock(g) ==
    /\ nexters[g].pc = "entered"
    /\ muFree(nexters)
    /\ nexters' = [nexters EXCEPT ![g].pc = "locked", ![g].seen = balancer]
    /\ UNCHANGED <<balancer, balVars, now, routerVars, batchVars, limVars,
                   cacheVars, probe, lookup, parse, rthreads, stats, sel, readers,
                   resolvers, fp>>

\* g runs the selection loop on what it read, writes the rotation state back,
\* releases b.mu and returns the provider
NextReturn(g) ==
    /\ nexters[g].pc = "locked"
    /\ LET r == NextLoop(nexters[g].seen)
       IN  /\ balancer' = r.b
           /\ history' = Append(history, r.provider)
           /\ nexters' = [nexters EXCEPT ![g].pc = "idle", ![g].got = r.provider,
                                         ![g].seen = <<>>, ![g].n = @ + 1]
    /\ UNCHANGED <<picked, counts, calls, run, now, routerVars, batchVars, limVars,
                   cacheVars, probe, lookup, parse, rthreads, stats, sel, readers,
                   resolvers, fp>>

\* hashObservation has not been called on its own
NoFingerprint == [made |-> FALSE, a |-> <<>>, b |-> <<>>, ha |-> <<>>, hb |-> <<>>]

\* nothing is looked up, parsed, requested or read on the side
ExtIdle ==
    /\ lookup = NoLookup
    /\ parse = NoParse
    /\ rthreads = [g \in Goroutines |-> NotCalling]
    /\ stats = NoStats
    /\ sel = NoSel
    /\ readers = [g \in Goroutines |-> NotReading]
    /\ resolvers = [g \in Goroutines |-> NotResolving]
    /\ nexters = [g \in Goroutines |-> NotInNext]
    /\ fp = NoFingerprint

\* the components exercised on their own are built and not used
UnitsIdle ==
    /\ NewLimiter(5)
    /\ cache = NewDecisionCache(100, 10)
    /\ op = NoOp
    /\ probe = NoProbe
    /\ ExtIdle

\* a fresh balancer over any pool of at most MaxProviders providers and any weights
InitPool ==
    /\ \E n \in 0 .. MaxProviders :
         \E w \in [{ProviderNames[i] : i \in 1 .. n} -> RawWeights] :
            balancer = NewBalancer(SubSeq(ProviderNames, 1, n), w)
    /\ picked = "none"
    /\ counts = [p \in {balancer.providers[i].name : i \in 1 .. Len(balancer.providers)} |-> 0]
    /\ calls = 0
    /\ run = 0
    /\ history = <<>>

InitBalancer == InitPool /\ RouterIdle /\ BatchIdle(<<>>) /\ UnitsIdle

BalancerOps == BalancerNext \/ BalancerGetByName

SpecBalancer == InitBalancer /\ [][BalancerOps]_vars

\* a router over any pool, with any set of backends answering
InitRouter ==
    /\ InitPool
    /\ now = 0
    /\ router = NewRouter(balancer, 0)
    /\ up \in SUBSET PoolNames(balancer)
    /\ rcall = NoCall
    /\ BatchIdle(<<>>)
    /\ UnitsIdle

RouterNext == RouterComplete \/ RouterCompleteWithProvider

SpecRouter == InitRouter /\ [][RouterNext]_vars

\* an unused balancer and router beside a batch system over a pool of n SLM providers
InitManager(n) ==
    /\ balancer = NewBalancer(<<>>, <<>>)
    /\ picked = "none"
    /\ counts = <<>>
    /\ calls = 0
    /\ run = 0
    /\ history = <<>>
    /\ RouterIdle
    /\ BatchIdle(SubSeq(SLMNames, 1, n))
    /\ UnitsIdle

\* the batch system over a small pool, under any observations, answers and clock
InitBatch == \E n \in 0 .. MaxBatchPool : InitManager(n)

BatchNext ==
    \/ GetBatchDecisions
    \/ callLLMWithFallback
    \/ callProviderWithRetry
    \/ selectResult
    \/ selectCtxDone
    \/ orphanRetry
    \/ CtxCancel
    \/ CtxTimeout
    \/ Tick

SpecBatch == InitBatch /\ [][BatchNext]_vars

\* the observation of one NPC
OneObservation == <<[npc_id |-> "npc_0", name |-> "Explorer", pos |-> <<20, 0>>,
                     nearby_gates |-> <<>>]>>

\* the batch system over any pool, asked about one NPC at one instant
InitFallback == \E n \in 0 .. MaxProviders : InitManager(n)

FallbackNext ==
    \/ GetBatchDecisions /\ bcall'.observations = OneObservation
    \/ callLLMWithFallback
    \/ callProviderWithRetry
    \/ selectResult
    \/ selectCtxDone
    \/ orphanRetry
    \/ CtxCancel
    \/ CtxTimeout

SpecFallback == InitFallback /\ [][FallbackNext]_vars

\* everything but the components exercised on their own is built and not used
RestIdle ==
    /\ balancer = NewBalancer(<<>>, <<>>)
    /\ picked = "none"
    /\ counts = <<>>
    /\ calls = 0
    /\ run = 0
    /\ history = <<>>
    /\ RouterIdle
    /\ BatchIdle(<<>>)

\* a full rate limiter of any capacity, refilled at one token a second, shared by
\* the goroutines
InitLimiter ==
    /\ RestIdle
    /\ \E maxTokens \in 1 .. MaxCapacity : NewLimiter(maxTokens)
    /\ cache = NewDecisionCache(100, 10)
    /\ op = NoOp
    /\ probe = NoProbe
    /\ ExtIdle

LimiterNext ==
    \/ \E g \in Goroutines : WaitCall(g)
    \/ \E g \in Goroutines : WaitLock(g)
    \/ \E g \in Goroutines : WaitWake(g)
    \/ Second

SpecLimiter == InitLimiter /\ [][LimiterNext]_vars

\* the clock runs, a sleep ends when it is over, and a goroutine queued for r.mu
\* gets it if it is free again and again
SpecLimiterFair ==
    /\ SpecLimiter
    /\ WF_vars(Second)
    /\ \A g \in Goroutines : WF_vars(WaitWake(g)) /\ SF_vars(WaitLock(g))

\* an empty decision cache of any small maxSize, its TTL one tick or just under
InitCache ==
    /\ RestIdle
    /\ NewLimiter(5)
    /\ \E maxSize \in 1 .. MaxCacheSize, ttl \in {TickSeconds - 1, TickSeconds} :
          cache = NewDecisionCache(maxSize, ttl)
    /\ op = NoOp
    /\ probe = NoProbe
    /\ ExtIdle

CacheNext == CacheSet \/ CacheGet \/ Tick

SpecCache == InitCache /\ [][CacheNext]_vars

CacheAnyKeyNext == CacheSetAnyKey \/ CacheGetAnyKey \/ Tick

SpecCacheAnyKey == InitCache /\ [][CacheAnyKeyNext]_vars

InitClassify == RestIdle /\ UnitsIdle

SpecClassify == InitClassify /\ [][Classify]_vars

\* a router over a pool of equal weights, some of its backends answering, called by
\* several goroutines at once
InitConcurrent ==
    /\ \E n \in 0 .. MaxConcProviders :
          balancer = NewBalancer(SubSeq(ProviderNames, 1, n),
                                 [p \in {ProviderNames[i] : i \in 1 .. n} |-> 1])
    /\ picked = "none"
    /\ counts = <<>>
    /\ calls = 0
    /\ run = 0
    /\ history = <<>>
    /\ now = 0
    /\ router = NewRouter(balancer, 0)
    /\ up \in SUBSET PoolNames(balancer)
    /\ rcall = NoCall
    /\ BatchIdle(<<>>)
    /\ UnitsIdle

ConcurrentNext ==
    \/ \E g \in Goroutines : RCStart(g)
    \/ \E g \in Goroutines : RCFinish(g)
    \/ RCGetStats

SpecConcurrent == InitConcurrent /\ [][ConcurrentNext]_vars

\* goroutines call Get at once on a cache whose entries are written once, Set
\* taking c.mu.Lock() while no Get holds the read lock
ReadersNext ==
    \/ CacheSet /\ NoReader /\ op'.key \notin DOMAIN cache.entries
    \/ \E g \in Goroutines : GetLoad(g)
    \/ \E g \in Goroutines : GetStore(g)

SpecReaders == InitClassify /\ [][ReadersNext]_vars

\* goroutines call GetBatchDecisions at once on one batch system as time passes
ResolversNext ==
    \/ \E g \in Goroutines : GBDEnter(g)
    \/ \E g \in Goroutines : GBDLookup(g)
    \/ \E g \in Goroutines : GBDCountHit(g)
    \/ \E g \in Goroutines : GBDCall(g)
    \/ \E g \in Goroutines : GBDStore(g)
    \/ Tick

SpecResolvers == InitClassify /\ [][ResolversNext]_vars

SpecFingerprint == InitClassify /\ [][Fingerprint]_vars

\* goroutines call Next() at once on one balancer
NextersNext ==
    \/ \E g \in Goroutines : NextEnter(g)
    \/ \E g \in Goroutines : NextLock(g)
    \/ \E g \in Goroutines : NextReturn(g)

SpecNexters == InitBalancer /\ [][NextersNext]_vars

OverrideNext == RouterSetNPCProvider \/ RouterGetProviderForNPC

SpecOverride == InitConcurrent /\ [][OverrideNext]_vars

SpecParse == InitClassify /\ [][Parse]_vars

----------------------------------------------------------------------------
(* Claims about the balancer, checked under SpecBalancer *)

RECURSIVE SumWeights(_, _)
SumWeights(ps, i) == IF i > Len(ps) THEN 0 ELSE ps[i].weight + SumWeights(ps, i + 1)

\* the greatest common divisor of the weights, from its definition
CommonDivisor(ps) ==
    CHOOSE d \in 1 .. (MaxWeight + 1) :
        /\ \A i \in 1 .. Len(ps) : ps[i].weight % d = 0
        /\ \A e \in 1 .. (MaxWeight + 1) :
              (\A i \in 1 .. Len(ps) : ps[i].weight % e = 0) => e <= d

\* number of selections in one full cycle of the rotation
CycleLen(ps) == SumWeights(ps, 1) \div CommonDivisor(ps)

WeightsOf(b) == [i \in 1 .. Len(b.providers) |-> b.providers[i].weight]

\* C4: starting from a freshly built balancer, after every whole number of blocks of
\* sum(w)/gcd selections each backend i has been returned exactly w_i/gcd times per
\* block; with weights 3:2:1 and 60 selections the counts lie in 25..35, 15..25, 5..15.
C4_WeightProportional ==
    LET ps == balancer.providers
    IN  Len(ps) >= 1 =>
          /\ (calls % CycleLen(ps) = 0 =>
                 \A i \in 1 .. Len(ps) :
                    counts[ps[i].name] =
                       (calls \div CycleLen(ps)) * (ps[i].weight \div CommonDivisor(ps)))
          /\ (WeightsOf(balancer) = <<3, 2, 1>> /\ calls = 60 =>
                 /\ counts["heavy"] \in 25 .. 35
                 /\ counts["medium"] \in 15 .. 25
                 /\ counts["light"] \in 5 .. 15)

\* 60 selections over weights 3:2:1 have been made and came out 30:20:10
C4_Witness ==
    /\ WeightsOf(balancer) = <<3, 2, 1>>
    /\ calls = 60
    /\ counts = [p \in {"heavy", "medium", "light"} |->
                   IF p = "heavy" THEN 30 ELSE IF p = "medium" THEN 20 ELSE 10]

\* the pool has three backends whose weights are 3, 2 and 1 in some order
Is321(b) ==
    /\ Len(b.providers) = 3
    /\ {b.providers[i].weight : i \in 1 .. 3} = {1, 2, 3}

\* C5: with weights 3:2:1 (in any pool order) no three consecutive Next() calls,
\* from the initial state onward, all return the weight-3 backend.
C5_NoTripleHeavy ==
    Is321(balancer) =>
       \A i \in 1 .. 3 :
          (balancer.providers[i].weight = 3 /\ picked = balancer.providers[i].name) => run <= 2

\* past the first cycle, the weight-3 backend has just been returned twice in a row
C5_Witness ==
    /\ Is321(balancer)
    /\ calls > 6
    /\ run = 2
    /\ \E i \in 1 .. 3 : balancer.providers[i].weight = 3 /\ picked = balancer.providers[i].name

----------------------------------------------------------------------------
(* Claims about GetBatchDecisions, checked under SpecBatch *)

\* a GetBatchDecisions call over at least one observation has returned
Returned == bpc = "done" /\ bcall.n > 0 /\ Len(bcall.observations) >= 1

\* the response holds one non-nil decision and one flag per observation
OnePerObservation ==
    /\ Len(bcall.response.Decisions) = Len(bcall.observations)
    /\ Len(bcall.response.FromCache) = Len(bcall.observations)
    /\ \A i \in 1 .. Len(bcall.response.Decisions) :
          bcall.response.Decisions[i] # NilDecision

\* C1 as stated: in every outcome of a call over n >= 1 observations, a cancelled
\* context included, the response holds exactly n non-nil decisions and n flags.
C1_OnePerObservationAlways == Returned => OnePerObservation

\* C1: a call over n >= 1 observations returns exactly n non-nil decisions and n
\* fromCache flags, and no error, in every outcome where the context was not found
\* cancelled by the two checks made before the combined call (all cached, call
\* succeeded, call failed, answer unparseable or short, context cancelled or timed
\* out during the call); found cancelled by one of those checks, it returns the
\* context's error with no decisions and no flags.
C1_OnePerObservationUnlessCancelledFirst ==
    Returned =>
       /\ (bcall.called \/ ~ctx.cancelled) =>
             /\ bcall.response.Error = <<>>
             /\ OnePerObservation
       /\ (~bcall.called /\ ctx.cancelled) =>
             /\ bcall.response.Error = ErrCtxCanceled
             /\ bcall.response.Decisions = <<>>
             /\ bcall.response.FromCache = <<>>

\* a call over two observations was cancelled while its provider was being called
\* and returned two decisions
C1_Witness ==
    /\ Returned
    /\ Len(bcall.observations) = 2
    /\ bcall.called
    /\ ctx.cancelled
    /\ bcall.err # <<>>
    /\ OnePerObservation

\* the key of observation i of the call is in the cache
Cached(i) == hashObservation(bcall.observations[i]) \in DOMAIN bds.cache.entries

\* C2: when callLLMWithFallback fails (every provider failed, or the context ended),
\* the response carries no error, every uncached observation gets the default
\* decision (action "explore", its own npc_id) with fromCache false, and every cached
\* observation keeps the decision of its cache entry with fromCache true.
C2_FailedCallGivesDefaults ==
    (Returned /\ bcall.err # <<>>) =>
       /\ bcall.response.Error = <<>>
       /\ Len(bcall.response.Decisions) = Len(bcall.observations)
       /\ Len(bcall.response.FromCache) = Len(bcall.observations)
       /\ \A i \in 1 .. Len(bcall.observations) :
             IF \E j \in 1 .. Len(bcall.uncachedIndices) : bcall.uncachedIndices[j] = i
             THEN /\ bcall.response.Decisions[i] =
                        [npc_id |-> bcall.observations[i].npc_id, action |-> "explore",
                         reason |-> "Looking around..."]
                  /\ ~bcall.response.FromCache[i]
             ELSE /\ bcall.response.FromCache[i]
                  /\ Cached(i)
                  /\ bcall.response.Decisions[i] =
                        bds.cache.entries[hashObservation(bcall.observations[i])].Decision

\* every provider failed on a call with one cached and one uncached observation
C2_Witness ==
    /\ Returned
    /\ bcall.err = ErrAllFailed
    /\ Len(bcall.observations) = 2
    /\ bcall.uncachedIndices = <<2>>
    /\ bcall.response.FromCache = <<TRUE, FALSE>>
    /\ bcall.response.Decisions[1].action = "move"
    /\ bcall.response.Decisions[2].action = "explore"

\* the cache c holds an entry under key that has not expired at time t
Live(c, key, t) ==
    /\ key \in DOMAIN c.entries
    /\ t - c.entries[key].CreatedAt <= c.ttl

\* C3: a GetBatchDecisions call entered with a live context, all of whose observations
\* have a live cache entry under their fingerprint, returns at once: no provider is
\* called, and every decision is the cached one with fromCache true.
C3_AllCachedCallsNoBackend ==
    [][(/\ bcall'.n = bcall.n + 1
        /\ ~ctx'.cancelled
        /\ Len(bcall'.observations) >= 1
        /\ \A i \in 1 .. Len(bcall'.observations) :
              Live(bds.cache, hashObservation(bcall'.observations[i]), now))
       =>
       (/\ bpc' = "done"
        /\ ~bcall'.called
        /\ worker' = NoWorker
        /\ log' = <<>>
        /\ bds'.batchCalls = bds.batchCalls
        /\ bds'.fallbackUsed = bds.fallbackUsed
        /\ bcall'.response.Error = <<>>
        /\ bcall'.response.FromCache = [i \in 1 .. Len(bcall'.observations) |-> TRUE]
        /\ bcall'.response.Decisions =
              [i \in 1 .. Len(bcall'.observations) |->
                  bds.cache.entries[hashObservation(bcall'.observations[i])].Decision])]_vars

\* the second call, over two observations, was served from the cache alone
C3_Witness ==
    /\ Returned
    /\ bcall.n = 2
    /\ Len(bcall.observations) = 2
    /\ bcall.response.FromCache = <<TRUE, TRUE>>
    /\ ~bcall.called
    /\ bds.batchCalls = 1
    /\ bds.cachHits = 2

----------------------------------------------------------------------------
(* Claims about retry and fallback, checked under SpecFallback: log holds the
   sleeps and the provider calls of the GetBatchDecisions call in progress *)

\* the number of calls of provider p among the first k events of the log
Invocations(p, k) ==
    Cardinality({j \in 1 .. k : log[j].kind = "invoke" /\ log[j].p = p})

PoolIndex(p) == CHOOSE i \in 1 .. Len(manager.slmProviders) : manager.slmProviders[i] = p

\* C9 as stated: the providers are called in pool order, the primary first, none is
\* called again once another was called, every fallback provider is called exactly
\* once, and nothing is called after the first success.
C9_FallbackEachOnce ==
    /\ \A j, k \in 1 .. Len(log) : j < k => PoolIndex(log[j].p) <= PoolIndex(log[k].p)
    /\ \A k \in 1 .. Len(log) :
          log[k].p # manager.activeSLM => Invocations(log[k].p, Len(log)) = 1
    /\ \A k \in 1 .. Len(log) : (log[k].kind = "invoke" /\ log[k].ok) => k = Len(log)

\* what C9 states apart from the single call of each fallback provider
C9_OrderAndStop ==
    /\ \A j, k \in 1 .. Len(log) : j < k => PoolIndex(log[j].p) <= PoolIndex(log[k].p)
    /\ \A k \in 1 .. Len(log) : (log[k].kind = "invoke" /\ log[k].ok) => k = Len(log)

----------------------------------------------------------------------------
(* Claims about Router.Complete, checked under SpecRouter *)

\* C6: a Router.Complete call made with an already-cancelled context (over a pool
\* that holds a backend) returns a cancellation error and invokes Complete on no backend.
C6_CancelledInvokesNoBackend ==
    (rcall.via = "Complete" /\ rcall.cancelled /\ Len(balancer.providers) > 0) =>
        /\ rcall.invoked = <<>>
        /\ ~rcall.ok
        /\ rcall.err = ErrCanceled

\* C11: over an empty pool, Router.Complete and CompleteWithProvider return the
\* "no providers available" error, call no backend, and leave the success counters,
\* the error counters and the last errors as NewRouter made them.
C11_EmptyPoolFailsAtOnce ==
    (rcall.n > 0 /\ Len(balancer.providers) = 0) =>
        /\ ~rcall.ok
        /\ rcall.err = ErrNoProviders
        /\ rcall.invoked = <<>>
        /\ router.successCount = NewRouter(balancer, 0).successCount
        /\ router.errorCount = NewRouter(balancer, 0).errorCount
        /\ router.lastError = NewRouter(balancer, 0).lastError

\* both methods were called over an empty pool, CompleteWithProvider last
C11_Witness ==
    /\ Len(balancer.providers) = 0
    /\ rcall.n = MaxRouterCalls
    /\ rcall.via = "CompleteWithProvider"
    /\ rcall.err = ErrNoProviders

\* the classes of backend error that are to be retried: network failure, timeout,
\* rate limiting (429) and every 5xx status; malformed responses and the other 4xx
\* statuses (authentication failures among them) are fatal
RetryableClass(e) ==
    \/ e.class \in {"network", "timeout"}
    \/ e.class = "http" /\ (e.status = 429 \/ e.status \in 500 .. 599)

\* C12: a backend error is classified retryable exactly when it is a network failure,
\* a timeout, a 429 or a 5xx status; malformed responses, authentication failures and
\* the other 4xx statuses are classified fatal.
C12_ClassifiedByKind == probe.n > 0 => (probe.retryable <=> RetryableClass(probe.e))

\* C10: a Router.Complete call on a live context succeeds whenever some configured
\* backend answers, and returns an error over a non-empty pool only after every
\* configured backend was tried in the call and failed.
C10_ErrorOnlyWhenAllFailed ==
    (rcall.via = "Complete" /\ ~rcall.cancelled) =>
        /\ up # {} => rcall.ok
        /\ (~rcall.ok /\ Len(balancer.providers) > 0) =>
               PoolNames(balancer) = {rcall.invoked[i] : i \in 1 .. Len(rcall.invoked)}

----------------------------------------------------------------------------
(* RateLimiter: the admitted rate, the delay of a caller, the bounds of the bucket,
   concurrent callers. The limiter refills one token a second, as the routers and
   managers of the program construct it. *)

\* the cost of the Wait calls among the first n returned that returned in t1 .. t2
RECURSIVE AdmittedCost(_, _, _)
AdmittedCost(n, t1, t2) ==
    IF n = 0 THEN 0
    ELSE AdmittedCost(n - 1, t1, t2)
         + (IF admitted[n].at \in t1 .. t2 THEN admitted[n].cost ELSE 0)

\* the tokens Wait finds after its refill when it gets the lock now
Available ==
    Min(limiter.r.maxTokens,
        limiter.r.tokens + (now - limiter.r.lastRefill) * limiter.r.refillRate)

\* C13: over every interval of length T the cost of the Wait calls that return in it
\* is at most capacity + refillRate * T; stated for the runs in which no call asks for
\* more than the capacity.
C13_AdmittedRateBounded ==
    (\A i \in 1 .. Len(admitted) : admitted[i].cost <= limiter.r.maxTokens) =>
        \A t1 \in 0 .. now : \A t2 \in t1 .. now :
            AdmittedCost(Len(admitted), t1, t2)
                <= limiter.r.maxTokens + limiter.r.refillRate * (t2 - t1)

\* C14: a Wait that finds fewer tokens than its cost after the refill sleeps exactly
\* (cost - available) / refillRate and leaves the bucket at zero when it returns; a
\* Wait that finds enough debits its cost and returns in the same instant.
C14_DelayIsDeficit ==
    [][\A g \in Goroutines :
        /\ (waiters[g].pc = "lock" /\ waiters'[g].pc # "lock") =>
              IF Available < waiters[g].cost
              THEN /\ waiters'[g].pc = "sleep"
                   /\ waiters'[g].wake * limiter.r.refillRate
                        = now * limiter.r.refillRate + (waiters[g].cost - Available)
                   /\ admitted' = admitted
              ELSE /\ waiters'[g].pc = "idle"
                   /\ now' = now
                   /\ limiter'.r.tokens = Available - waiters[g].cost
                   /\ admitted' = Append(admitted, [g |-> g, at |-> now, cost |-> waiters[g].cost])
        /\ (waiters[g].pc = "sleep" /\ waiters'[g].pc # "sleep") =>
              /\ waiters'[g].pc = "idle"
              /\ now' = now
              /\ now = waiters[g].wake
              /\ limiter'.r.tokens = 0
              /\ admitted' = Append(admitted, [g |-> g, at |-> now, cost |-> waiters[g].cost])
        /\ (waiters[g].pc = "sleep" /\ waiters'[g].pc = "sleep") => now' <= waiters[g].wake
      ]_vars

\* capacity 5, one token a second: Wait(5) has returned at once at time 0, and the
\* Wait(1) called right after it sleeps until time 1
C14_Witness ==
    /\ limiter.r.maxTokens = 5
    /\ Len(admitted) = 1
    /\ admitted[1].cost = 5
    /\ admitted[1].at = 0
    /\ \E g \in Goroutines :
          /\ waiters[g].pc = "sleep"
          /\ waiters[g].cost = 1
          /\ waiters[g].calledAt = 0
          /\ waiters[g].wake = 1
          /\ now = 1

\* C15: the token count stays within 0 .. capacity, and it decreases only in the
\* step in which a Wait call consumes and returns.
C15_TokensWithinBucket ==
    /\ [](limiter.r.tokens \in 0 .. limiter.r.maxTokens)
    /\ [][limiter'.r.tokens < limiter.r.tokens => Len(admitted') = Len(admitted) + 1]_vars

\* the bucket stood full for the whole horizon, then was refilled and debited
C15_Witness ==
    /\ now >= LimiterHorizon
    /\ Len(admitted) = 1
    /\ admitted[1].at = LimiterHorizon
    /\ admitted[1].cost = 1
    /\ limiter.r.tokens = limiter.r.maxTokens - 1
    /\ limiter.r.lastRefill = LimiterHorizon

\* C16: no caller of Wait spends time queued behind the sleep of another caller.
C16_NeverBlockedBySleeper == \A g \in Goroutines : waiters[g].blocked = 0

\* C17: every Wait call of every goroutine returns, whatever its cost.
C17_EveryWaitReturns ==
    \A g \in Goroutines : (waiters[g].pc # "idle") ~> (waiters[g].pc = "idle")

\* a Wait for more than the capacity has returned after another caller's Wait
C17_Witness ==
    /\ Len(admitted) >= 2
    /\ admitted[Len(admitted)].cost > limiter.r.maxTokens
    /\ admitted[Len(admitted)].g # admitted[1].g
    /\ \A g \in Goroutines : waiters[g].pc = "idle"

----------------------------------------------------------------------------
(* DecisionCache: expiry and eviction *)

\* the entries of c apart from the keys ks are those of d
SameApartFrom(c, d, ks) ==
    \A k \in (DOMAIN c.entries \cup DOMAIN d.entries) \ ks :
        /\ k \in DOMAIN c.entries
        /\ k \in DOMAIN d.entries
        /\ c.entries[k] = d.entries[k]

\* C18: Set at time T stores the decision with creation time T; a Get at time t
\* returns the stored decision of its key if t - T <= ttl and reports the key absent
\* if t - T > ttl or no entry is stored; Get and the passing of time leave every
\* entry's decision and creation time as Set wrote them.
C18_PresentUntilTTL ==
    [][/\ (op'.n = op.n + 1 /\ op'.kind = "set") =>
             /\ op'.key \in DOMAIN cache'.entries
             /\ cache'.entries[op'.key].Decision = op'.Decision
             /\ cache'.entries[op'.key].CreatedAt = now
       /\ (op'.n = op.n + 1 /\ op'.kind = "get") =>
             /\ IF op'.key \in DOMAIN cache.entries
                THEN /\ op'.ok <=> (now - cache.entries[op'.key].CreatedAt <= cache.ttl)
                     /\ op'.ok => op'.Decision = cache.entries[op'.key].Decision
                ELSE ~op'.ok
             /\ DOMAIN cache'.entries = DOMAIN cache.entries
             /\ \A k \in DOMAIN cache.entries :
                   /\ cache'.entries[k].Decision = cache.entries[k].Decision
                   /\ cache'.entries[k].CreatedAt = cache.entries[k].CreatedAt
       /\ op'.n = op.n => cache' = cache
      ]_vars

\* an entry that Get returned while it was fresh is reported absent once its age
\* exceeds the TTL, still being stored
C18_Witness ==
    /\ op.kind = "get"
    /\ ~op.ok
    /\ op.key \in DOMAIN cache.entries
    /\ cache.entries[op.key].HitCount >= 1
    /\ now - cache.entries[op.key].CreatedAt > cache.ttl

\* C19: Set on a cache of maxSize entries removes exactly one entry, one of the
\* oldest creation time, keeps every other entry and stores the new entry so that Get
\* returns it; Set on a cache below maxSize removes nothing.
C19_EvictsOldestOnly ==
    [][(op'.n = op.n + 1 /\ op'.kind = "set") =>
          /\ IF Cardinality(DOMAIN cache.entries) >= cache.maxSize
             THEN \E old \in DOMAIN cache.entries :
                     /\ \A k \in DOMAIN cache.entries :
                           cache.entries[old].CreatedAt <= cache.entries[k].CreatedAt
                     /\ DOMAIN cache'.entries = (DOMAIN cache.entries \ {old}) \cup {op'.key}
                     /\ SameApartFrom(cache, cache', {old, op'.key})
             ELSE /\ DOMAIN cache'.entries = DOMAIN cache.entries \cup {op'.key}
                  /\ SameApartFrom(cache, cache', {op'.key})
          /\ Get(cache', op'.key, now').ok
          /\ Get(cache', op'.key, now').Decision = op'.Decision
      ]_vars

\* a Set on a full cache of two entries of different ages removed one and kept the
\* younger one
C19_Witness ==
    /\ op.kind = "set"
    /\ op.removed # {}
    /\ cache.maxSize = MaxCacheSize
    /\ Cardinality(DOMAIN cache.entries) = cache.maxSize
    /\ \E k \in DOMAIN cache.entries :
          /\ k # op.key
          /\ cache.entries[k].CreatedAt > 0
          /\ cache.entries[k].CreatedAt < now

----------------------------------------------------------------------------
(* Balancer over a single backend *)

\* C20: a balancer built with exactly one backend, of any weight, returns that
\* backend on every Next() call, and its rotation state (lastIndex, currentWeight)
\* stays as NewBalancer made it.
C20_SingleBackendAlways ==
    Len(balancer.providers) = 1 =>
        /\ balancer.lastIndex = -1
        /\ balancer.currentWeight = 0
        /\ calls > 0 => picked = balancer.providers[1].name
        /\ \A i \in 1 .. Len(history) : history[i] = balancer.providers[1].name
        /\ counts[balancer.providers[1].name] = calls

\* MaxCalls calls were made on a single backend of the largest weight
C20_Witness ==
    /\ Len(balancer.providers) = 1
    /\ balancer.providers[1].weight = MaxWeight
    /\ calls = MaxCalls
    /\ Len(history) = MaxCalls

----------------------------------------------------------------------------
(* Balancer: the empty pool, lookups by name, the range of currentWeight *)

\* C21: Next() returns nil exactly when the pool is empty, and on an empty pool it
\* returns nil on every call and leaves the balancer as it was built.
C21_NilIffEmpty ==
    /\ calls > 0 => (picked = "nil" <=> Len(balancer.providers) = 0)
    /\ \A i \in 1 .. Len(history) : history[i] = "nil" <=> Len(balancer.providers) = 0
    /\ Len(balancer.providers) = 0 => balancer = NewBalancer(<<>>, <<>>)

\* MaxCalls calls were made on an empty pool
C21_Witness ==
    /\ Len(balancer.providers) = 0
    /\ calls = MaxCalls
    /\ picked = "nil"

\* C22: GetByName(name) returns the provider of that name if the pool has one and
\* nil otherwise, whatever the rotation state, and a GetByName call leaves the
\* balancer (currentWeight and lastIndex with it) unchanged.
C22_GetByNameIgnoresRotation ==
    /\ [](lookup # NoLookup =>
            lookup.provider =
                IF \E i \in 1 .. Len(balancer.providers) :
                       balancer.providers[i].name = lookup.name
                THEN lookup.name ELSE "nil")
    /\ [][lookup' # lookup => balancer' = balancer]_vars

\* a provider was found by name after the rotation had moved past it
C22_Witness ==
    /\ lookup.provider = "medium"
    /\ calls >= 2
    /\ balancer.lastIndex >= 1

\* C23: between two Next() calls, 0 <= currentWeight <= maxWeight.
C23_CurrentWeightInRange ==
    /\ 0 <= balancer.currentWeight
    /\ balancer.currentWeight <= balancer.maxWeight

\* the rotation stands at a current weight strictly between the bounds
C23_Witness ==
    /\ calls > 0
    /\ 0 < balancer.currentWeight
    /\ balancer.currentWeight < balancer.maxWeight

----------------------------------------------------------------------------
(* GetBatchDecisions: cancellation, demultiplexing, cache writes *)

\* C24: once the context of a GetBatchDecisions call is done, no backend invocation
\* of that call is started: the goroutine of callWithContext makes no further
\* attempt while the select has yet to take ctx.Done(), and none after it was left
\* behind.
C24_NoInvocationAfterCancel ==
    [][/\ Len(log') > Len(log) => ~ctxDone
       /\ orphans \subseteq orphans'
      ]_vars

\* the entries of the parsed answer that carry the identifier, the name, of obs
EntriesById(obs) ==
    {k \in 1 .. Len(parse.response.decisions) : parse.response.decisions[k].npc_id = obs.npc_id}

EntriesByName(obs) ==
    {k \in 1 .. Len(parse.response.decisions) : parse.response.decisions[k].npc = obs.name}

\* entry k of the answer as the observation obs receives it
Received(k, obs) == [parse.response.decisions[k] EXCEPT !.npc_id = obs.npc_id]

\* C25: each observation receives an entry of the answer that carries its npc_id;
\* if no entry does, an entry that carries its name; if none does either, the
\* default decision.
C25_MatchedByIdThenName ==
    parse.made =>
        \A i \in 1 .. Len(parse.observations) :
            LET obs == parse.observations[i]
            IN  IF EntriesById(obs) # {}
                THEN \E k \in EntriesById(obs) : parse.result[i] = Received(k, obs)
                ELSE IF EntriesByName(obs) # {}
                THEN \E k \in EntriesByName(obs) : parse.result[i] = Received(k, obs)
                ELSE parse.result[i] = DefaultDecision(obs)

\* the GetBatchDecisions call that has returned made its combined call with success
Succeeded ==
    /\ Returned
    /\ bcall.called
    /\ bcall.err = <<>>
    /\ bcall.response.Error = <<>>

\* C26: when the combined call of a GetBatchDecisions call succeeds, the decision
\* returned for each uncached observation is in the cache under the fingerprint of
\* that observation, created at that time, when the call returns; and the same call
\* made again while those entries are within the TTL returns the same decisions,
\* all from the cache, without a provider being called.
C26_ComputedDecisionsCached ==
    [][/\ (bpc = "select" /\ bpc' = "done" /\ bds'.batchCalls = bds.batchCalls + 1) =>
             \A j \in 1 .. Len(bcall.uncachedIndices) :
                LET idx == bcall.uncachedIndices[j]
                    key == hashObservation(bcall.observations[idx])
                IN  /\ key \in DOMAIN bds'.cache.entries
                    /\ bds'.cache.entries[key].Decision = bcall'.response.Decisions[idx]
                    /\ bds'.cache.entries[key].CreatedAt = now
       /\ (/\ Succeeded
           /\ bcall'.n = bcall.n + 1
           /\ bcall'.observations = bcall.observations
           /\ ~ctx'.cancelled
           /\ \A i \in 1 .. Len(bcall.observations) :
                 Live(bds.cache, hashObservation(bcall.observations[i]), now))
          =>
          (/\ bpc' = "done"
           /\ ~bcall'.called
           /\ bcall'.response.FromCache = [i \in 1 .. Len(bcall.observations) |-> TRUE]
           /\ bcall'.response.Decisions = bcall.response.Decisions)
      ]_vars

----------------------------------------------------------------------------
(* Router: counters under concurrent calls, GetStats *)

\* m[k] read on a Go map
CountOf(m, k) == IF k \in DOMAIN m THEN m[k] ELSE 0

RECURSIVE Total(_)
Total(m) ==
    IF DOMAIN m = {} THEN 0
    ELSE LET k == CHOOSE x \in DOMAIN m : TRUE
         IN  m[k] + Total([x \in DOMAIN m \ {k} |-> m[x]])

\* the counters of the providers other than p are those of before
OthersKept(p) ==
    \A q \in (DOMAIN router.successCount \cup DOMAIN router'.successCount
              \cup DOMAIN router.errorCount \cup DOMAIN router'.errorCount
              \cup DOMAIN router.lastError \cup DOMAIN router'.lastError) \ {p} :
        /\ CountOf(router'.successCount, q) = CountOf(router.successCount, q)
        /\ CountOf(router'.errorCount, q) = CountOf(router.errorCount, q)
        /\ q \in DOMAIN router'.lastError <=> q \in DOMAIN router.lastError
        /\ q \in DOMAIN router.lastError => router'.lastError[q] = router.lastError[q]

\* C27: the return of a backend invocation made through the Router raises exactly
\* one counter of that backend by one: the success count on success, the error count
\* on failure, with lastError set to the error returned; the other backends' counters
\* and every counter in every other step stay as they are; the outcome is the
\* backend's, whatever the counters; and with goroutines calling at once the counters
\* add up to the number of invocations that returned.
C27_OneCounterPerInvocation ==
    /\ [](Total(router.successCount) + Total(router.errorCount)
            = IF Len(balancer.providers) = 0 THEN 0
              ELSE rcall.n - Cardinality({g \in Goroutines : rthreads[g].pc = "calling"}))
    /\ [][/\ \A g \in Goroutines :
               (rthreads[g].pc = "calling" /\ rthreads'[g].pc = "idle") =>
                  LET p == rthreads[g].provider
                  IN  /\ rthreads'[g].ok <=> (~rthreads[g].cancelled /\ p \in up)
                      /\ OthersKept(p)
                      /\ IF rthreads'[g].ok
                         THEN /\ CountOf(router'.successCount, p)
                                    = CountOf(router.successCount, p) + 1
                              /\ router'.errorCount = router.errorCount
                              /\ router'.lastError = router.lastError
                         ELSE /\ CountOf(router'.errorCount, p)
                                    = CountOf(router.errorCount, p) + 1
                              /\ router'.lastError[p] = rthreads'[g].err
                              /\ router'.successCount = router.successCount
          /\ (\A g \in Goroutines : ~(rthreads[g].pc = "calling" /\ rthreads'[g].pc = "idle")) =>
                /\ router'.successCount = router.successCount
                /\ router'.errorCount = router.errorCount
                /\ router'.lastError = router.lastError
         ]_vars

\* a backend has a success and a failure recorded while another invocation of it is
\* in flight
C27_Witness ==
    \E g \in Goroutines :
        /\ rthreads[g].pc = "calling"
        /\ CountOf(router.successCount, rthreads[g].provider) = 1
        /\ CountOf(router.errorCount, rthreads[g].provider) = 1

\* C29: the value returned by GetStats is a snapshot: whatever completion calls
\* record afterwards, its holder reads in it what it held when it was returned.
C29_StatsIsSnapshot == stats.taken => ReadStats(router, stats.value) = stats.seen

----------------------------------------------------------------------------
(* DecisionCache: concurrent Get calls *)

RECURSIVE HitsOf(_)
\* the hit counters of the entries, added up
HitsOf(entries) ==
    IF DOMAIN entries = {} THEN 0
    ELSE LET k == CHOOSE x \in DOMAIN entries : TRUE
         IN  entries[k].HitCount + HitsOf([x \in DOMAIN entries \ {k} |-> entries[x]])

RECURSIVE DoneBy(_)
\* the successful Get calls the goroutines gs have completed
DoneBy(gs) ==
    IF gs = {} THEN 0
    ELSE LET g == CHOOSE x \in gs : TRUE IN readers[g].done + DoneBy(gs \ {g})

\* C28: the hit counters are mutated under mutual exclusion: once the concurrent
\* successful Get calls have returned, the hit counters of the entries have risen by
\* one for each of them.
C28_NoLostHit == NoReader => HitsOf(cache.entries) = DoneBy(Goroutines)

----------------------------------------------------------------------------
(* Router: per-NPC provider overrides *)

\* C30: SetNPCProvider(agent, name) with the name of a configured backend makes that
\* backend the override of the agent and changes no other override; with an unknown
\* name it leaves the override map unchanged; GetProviderForNPC returns the override
\* of an agent that has one, at any rotation state and without advancing the
\* rotation, and Balancer.Next() for an agent without one; an override lasts until
\* the next SetNPCProvider for that agent.
C30_OverrideSelected ==
    /\ [](\A a \in DOMAIN router.npcMapping : router.npcMapping[a] \in PoolNames(balancer))
    /\ [][/\ (sel'.n = sel.n + 1 /\ sel'.kind = "set") =>
                /\ balancer' = balancer
                /\ IF sel'.providerName \in PoolNames(balancer)
                   THEN /\ DOMAIN router'.npcMapping
                              = DOMAIN router.npcMapping \cup {sel'.npcName}
                        /\ router'.npcMapping[sel'.npcName] = sel'.providerName
                        /\ \A a \in DOMAIN router.npcMapping \ {sel'.npcName} :
                              router'.npcMapping[a] = router.npcMapping[a]
                   ELSE router'.npcMapping = router.npcMapping
          /\ (sel'.n = sel.n + 1 /\ sel'.kind = "get") =>
                /\ router'.npcMapping = router.npcMapping
                /\ IF sel'.npcName \in DOMAIN router.npcMapping
                   THEN /\ sel'.provider = router.npcMapping[sel'.npcName]
                        /\ balancer' = balancer
                   ELSE /\ sel'.provider = Next(balancer).provider
                        /\ balancer' = Next(balancer).b
         ]_vars

\* an agent's override is returned after the requests of the other agent moved the
\* rotation on
C30_Witness ==
    /\ sel.kind = "get"
    /\ sel.npcName \in DOMAIN router.npcMapping
    /\ sel.provider = "medium"
    /\ balancer.lastIndex >= 0
    /\ sel.n = MaxOverrideOps

----------------------------------------------------------------------------
(* DecisionCache: lazy expiry *)

\* the entry of key k in c is older than the TTL at time t
Expired(c, k, t) == k \in DOMAIN c.entries /\ t - c.entries[k].CreatedAt > c.ttl

\* C31: Get on a key whose entry is expired reports the key absent and leaves the
\* cache as it was: the same keys, every creation time, the same number of entries
\* counted against maxSize; a Set of a new key on a cache that is full, expired
\* entries included, still evicts an entry.
C31_ExpiredGetRemovesNothing ==
    [][/\ (op'.n = op.n + 1 /\ op'.kind = "get" /\ Expired(cache, op'.key, now)) =>
             /\ ~op'.ok
             /\ op'.Decision = NilDecision
             /\ cache' = cache
       /\ (/\ op'.n = op.n + 1
           /\ op'.kind = "set"
           /\ op'.key \notin DOMAIN cache.entries
           /\ Cardinality(DOMAIN cache.entries) >= cache.maxSize
           /\ \E k \in DOMAIN cache.entries : Expired(cache, k, now)) =>
             /\ Cardinality(DOMAIN cache.entries \ DOMAIN cache'.entries) = 1
             /\ Cardinality(DOMAIN cache'.entries) = cache.maxSize
      ]_vars

\* a Get found its key expired in a full cache of several entries, which is as full
\* afterwards
C31_Witness ==
    /\ op.kind = "get"
    /\ ~op.ok
    /\ Expired(cache, op.key, now)
    /\ cache.maxSize >= 2
    /\ Cardinality(DOMAIN cache.entries) = cache.maxSize

----------------------------------------------------------------------------
(* BatchDecisionSystem: statistics under concurrent callers *)

\* the GetBatchDecisions calls the goroutines gs started
RECURSIVE StartedBy(_)
StartedBy(gs) ==
    IF gs = {} THEN 0
    ELSE LET g == CHOOSE x \in gs : TRUE IN resolvers[g].started + StartedBy(gs \ {g})

\* C32: under any interleaving of concurrent GetBatchDecisions calls no counter of
\* the batch system decreases; cachHits <= totalDecisions and batchCalls +
\* fallbackUsed <= the calls started, in every state; a call makes at most one
\* combined call, raising batchCalls by one when it succeeds and fallbackUsed by one
\* when it fails, and nothing else raises them.
C32_CountersMonotonic ==
    /\ [](/\ bds.cachHits <= bds.totalDecisions
          /\ bds.batchCalls + bds.fallbackUsed <= StartedBy(Goroutines)
          /\ \A g \in Goroutines : resolvers[g].called <= 1)
    /\ [][/\ bds'.totalDecisions >= bds.totalDecisions
          /\ bds'.cachHits >= bds.cachHits
          /\ bds'.batchCalls >= bds.batchCalls
          /\ bds'.fallbackUsed >= bds.fallbackUsed
          /\ \A g \in Goroutines :
                IF resolvers[g].pc = "callLLM" /\ resolvers'[g].called = 1
                THEN IF resolvers'[g].pc = "phase4"
                     THEN /\ bds'.batchCalls = bds.batchCalls + 1
                          /\ bds'.fallbackUsed = bds.fallbackUsed
                     ELSE /\ bds'.batchCalls = bds.batchCalls
                          /\ bds'.fallbackUsed = bds.fallbackUsed + 1
                ELSE resolvers'[g] # resolvers[g] =>
                        /\ bds'.batchCalls = bds.batchCalls
                        /\ bds'.fallbackUsed = bds.fallbackUsed
         ]_vars

\* one caller stores the decisions of its successful call while the other, which
\* hit the cache, is about to count the hit, a fallback having been counted before
C32_Witness ==
    /\ resolvers["g1"].pc = "phase4"
    /\ resolvers["g2"].pc = "hit"
    /\ bds.batchCalls >= 1
    /\ bds.fallbackUsed >= 1
    /\ bds.cachHits >= 1

----------------------------------------------------------------------------
(* hashObservation: what the fingerprint depends on *)

\* the locked gates of an observation, each as (id, quantized distance)
LockedGates(obs) ==
    {<<obs.nearby_gates[i].id, Grid(obs.nearby_gates[i].distance)>> :
        i \in {j \in 1 .. Len(obs.nearby_gates) : ~obs.nearby_gates[j].unlocked}}

\* how often each locked gate occurs in an observation
LockedGateCounts(obs) ==
    [k \in LockedGates(obs) |->
        Cardinality({i \in 1 .. Len(obs.nearby_gates) :
                        /\ ~obs.nearby_gates[i].unlocked
                        /\ <<obs.nearby_gates[i].id, Grid(obs.nearby_gates[i].distance)>> = k})]

\* the name and the grid cell of two observations are the same
SameNameAndCell(a, b) ==
    /\ a.name = b.name
    /\ Grid(a.pos[1]) = Grid(b.pos[1])
    /\ Grid(a.pos[2]) = Grid(b.pos[2])

\* no locked gate of the observation has a separator of the key in its id
PlainIds(obs) ==
    \A k \in LockedGates(obs) : \A i \in 1 .. Len(k[1]) : k[1][i] \notin {",", ":"}

\* C33 as stated: the fingerprint is a function of the name, the grid cell and the
\* set of (gate id, quantized distance) of the locked gates, and observations
\* differing in one of these have different keys.
C33_KeyOfGateSet ==
    fp.made =>
        ((SameNameAndCell(fp.a, fp.b) /\ LockedGates(fp.a) = LockedGates(fp.b))
            <=> fp.ha = fp.hb)

\* C33, amended: the fingerprint is a function of the name, the grid cell and the
\* locked gates counted with their multiplicity, whatever the order of the gates, the
\* unlocked gates and the other fields; observations differing in name or grid cell
\* have different keys, and so have observations differing in their locked gates
\* with multiplicity when no gate id holds "," or ":".
C33_KeyOfGateList ==
    fp.made =>
        /\ (SameNameAndCell(fp.a, fp.b) /\ LockedGateCounts(fp.a) = LockedGateCounts(fp.b))
              => fp.ha = fp.hb
        /\ ~SameNameAndCell(fp.a, fp.b) => fp.ha # fp.hb
        /\ (/\ LockedGateCounts(fp.a) # LockedGateCounts(fp.b)
            /\ PlainIds(fp.a)
            /\ PlainIds(fp.b)) => fp.ha # fp.hb

\* two observations with the same two locked gates in opposite orders, an unlocked
\* gate and a different energy apart, on either side of the origin, have one key
C33_Witness ==
    /\ fp.made
    /\ fp.ha = fp.hb
    /\ fp.a.pos # fp.b.pos
    /\ fp.a.energy # fp.b.energy
    /\ Len(fp.a.nearby_gates) = 2
    /\ Len(fp.b.nearby_gates) = 2
    /\ Cardinality(LockedGates(fp.a)) = 2
    /\ fp.a.nearby_gates[1] = fp.b.nearby_gates[2]
    /\ fp.a.nearby_gates[2] = fp.b.nearby_gates[1]

----------------------------------------------------------------------------
(* Balancer: runs of the heaviest backend *)

\* the pool has three or more backends, the gcd of the weights is 1, and one backend
\* alone has the maximum weight, which is above 1
UniqueMaximum(b) ==
    /\ Len(b.providers) >= 3
    /\ b.gcd = 1
    /\ b.maxWeight > 1
    /\ Cardinality({i \in 1 .. Len(b.providers) : b.providers[i].weight = b.maxWeight}) = 1

\* C34: over a pool of three or more backends with gcd of weights 1 and a unique
\* maximum weight w > 1, Next() never returns the maximum-weight backend w times in
\* a row.
C34_NoRunOfMaximum ==
    UniqueMaximum(balancer) =>
       \A i \in 1 .. Len(balancer.providers) :
          (/\ balancer.providers[i].weight = balancer.maxWeight
           /\ picked = balancer.providers[i].name) => run < balancer.maxWeight

----------------------------------------------------------------------------
(* Balancer: the selection loop ends *)

\* C35: on a pool of n >= 2 backends, from every reachable rotation state and for
\* every weight vector (weights <= 0 normalized to 1), the selection loop of Next()
\* finds an eligible backend after at most 2n-1 advances of the cyclic index.
C35_LoopEndsWithinTwoRounds ==
    Len(balancer.providers) >= 2 =>
       NextLoopAdvances(balancer, 0) <= 2 * Len(balancer.providers) - 1

\* after some calls on three backends, one of weight 1, the next call goes a full
\* round of the index before it finds an eligible backend
C35_Witness ==
    /\ Len(balancer.providers) = 3
    /\ \E i \in 1 .. 3 : balancer.providers[i].weight = 1
    /\ calls > 3
    /\ NextLoopAdvances(balancer, 0) = 3
    /\ picked = Next(balancer).provider

----------------------------------------------------------------------------
(* Balancer: concurrent callers *)

\* the first k providers a single caller gets from the balancer b, one call after
\* the other
RECURSIVE Sequential(_, _)
Sequential(b, k) ==
    IF k = 0 THEN <<>> ELSE <<Next(b).provider>> \o Sequential(Next(b).b, k - 1)

\* the rotation state a single caller leaves after k calls on the balancer b
RECURSIVE SequentialState(_, _)
SequentialState(b, k) == IF k = 0 THEN b ELSE SequentialState(Next(b).b, k - 1)

\* the balancer as NewBalancer built it
Fresh(b) == [b EXCEPT !.currentWeight = 0, !.lastIndex = -1]

\* C36: under any interleaving of concurrent Next() callers, the backends returned,
\* in the order in which the callers took the lock, are exactly the sequence a single
\* sequential caller gets from the same pool, and the rotation state is the one that
\* caller leaves.
C36_Linearizable ==
    /\ history = Sequential(Fresh(balancer), Len(history))
    /\ balancer = SequentialState(Fresh(balancer), Len(history))

\* two callers have each been served twice from a pool of three backends of
\* different weights, and one holds the lock while the other waits for it
C36_Witness ==
    /\ Len(balancer.providers) = 3
    /\ balancer.maxWeight > 1
    /\ nexters["g1"].pc = "locked"
    /\ nexters["g2"].pc = "entered"
    /\ nexters["g1"].n >= 2
    /\ nexters["g2"].n >= 2
    /\ nexters["g1"].got # nexters["g2"].got

----------------------------------------------------------------------------
(* DecisionCache: capacity *)

\* C37: for maxSize >= 1 and any sequence of Set and Get calls with arbitrary keys,
\* the cache never holds more than maxSize entries.
C37_SizeWithinMaxSize == Cardinality(DOMAIN cache.entries) <= cache.maxSize

----------------------------------------------------------------------------
(* GetBatchDecisions: the cache after a failed call *)

\* the cache d holds the keys of c with their decisions and creation times
Unwritten(c, d) ==
    /\ DOMAIN d.entries = DOMAIN c.entries
    /\ \A k \in DOMAIN c.entries :
          /\ d.entries[k].Decision = c.entries[k].Decision
          /\ d.entries[k].CreatedAt = c.entries[k].CreatedAt

\* C38: the step on which callLLMWithFallback fails (every provider failed, or the
\* context ended during the call) leaves the cache as it was, and no step but a
\* successful combined call writes an entry; so a GetBatchDecisions call made with
\* the same observations after a failed one finds the same observations uncached
\* and goes on to the providers again.
C38_FailedCallLeavesCache ==
    [][/\ (bpc # "done" /\ bpc' = "done" /\ bcall'.err # <<>>) =>
             /\ bds'.cache = bds.cache
             /\ bds'.fallbackUsed = bds.fallbackUsed + 1
       /\ bds'.batchCalls = bds.batchCalls => Unwritten(bds.cache, bds'.cache)
       /\ (/\ bpc = "done"
           /\ bcall.err # <<>>
           /\ bcall'.n = bcall.n + 1
           /\ bcall'.observations = bcall.observations
           /\ ~ctx'.cancelled) =>
             /\ bpc' = "lookedUp"
             /\ \A j \in 1 .. Len(bcall.uncachedIndices) :
                   \E k \in 1 .. Len(bcall'.uncachedIndices) :
                      bcall'.uncachedIndices[k] = bcall.uncachedIndices[j]
      ]_vars

\* the first call failed and left the cache empty; the second call, over two
\* observations, has a provider running
C38_Witness ==
    /\ bcall.n = 2
    /\ bds.fallbackUsed = 1
    /\ bds.batchCalls = 0
    /\ DOMAIN bds.cache.entries = {}
    /\ Len(bcall.observations) = 2
    /\ bpc = "select"
    /\ worker.state = "running"

----------------------------------------------------------------------------
(* GetBatchDecisions: whose decision each slot holds *)

\* C39: in a response without error, the decision at index i carries the npc_id of
\* observation i, for every i: also when two observations share a name, when one
\* entry of the answer matches several observations, and when the decision comes
\* from the cache.
C39_DecisionForItsObservation ==
    (Returned /\ bcall.response.Error = <<>>) =>
       \A i \in 1 .. Len(bcall.response.Decisions) :
          /\ "npc_id" \in DOMAIN bcall.response.Decisions[i]
          /\ bcall.response.Decisions[i].npc_id = bcall.observations[i].npc_id

====
